---- MODULE Spec2Model ----
(***************************************************************************)
(* Hierarchical file-lock registry of the MCSM daemon.                     *)
(*                                                                         *)
(*   daemon/src/service/file_lock_service.ts  path normalizer, registry,   *)
(*                                            ancestor index, propagator   *)
(*   daemon/src/routers/file_router.ts        file/ event handlers and     *)
(*                                            fileLockMiddleware           *)
(*                                                                         *)
(* A path is a sequence of one-character strings, so that normalizePath,   *)
(* startsWith, split and join are computed character by character as the   *)
(* JavaScript does.  instance.config.lockedFiles and                       *)
(* instance.config.foldersWithLockedContent are arrays: sequences whose    *)
(* order is the insertion order.  An absent array is the empty sequence:   *)
(* every read in the source goes through "|| []" or returns false on an    *)
(* absent array exactly as it does on an empty one.                        *)
(* Array indices are 1-based here; indexOf's "not found" (-1) is 0.        *)
(***************************************************************************)
EXTENDS Integers, Sequences, FiniteSets, TLC

\* ------------------------------------------------------------------ bounds
\* longest raw path string handed to an operation
MaxLen == 3
\* largest number of entries of lockedFiles
MaxLocks == 2
\* longest registry entry a move may produce
MaxPathLen == 4

\* the characters of a path: one letter, the separator, the backslash
Chars == {"a", "/", "\\"}

RECURSIVE SeqsUpTo(_, _)
SeqsUpTo(S, n) ==
  IF n = 0 THEN {<<>>}
  ELSE LET shorter == SeqsUpTo(S, n - 1)
       IN  shorter \cup {Append(s, c) : s \in {t \in shorter : Len(t) = n - 1}, c \in S}

\* every raw string a caller can pass
RawPaths == SeqsUpTo(Chars, MaxLen)

\* --------------------------------------------------- JavaScript primitives
\* String.prototype.startsWith
startsWith(s, prefix) ==
  /\ Len(prefix) <= Len(s)
  /\ SubSeq(s, 1, Len(prefix)) = prefix

\* String.prototype.substring(from) with a 0-based start
substring(s, from) == SubSeq(s, from + 1, Len(s))

\* Array.prototype.indexOf, 1-based, 0 when absent
RECURSIVE indexOfFrom(_, _, _)
indexOfFrom(arr, x, i) ==
  IF i > Len(arr) THEN 0
  ELSE IF arr[i] = x THEN i
  ELSE indexOfFrom(arr, x, i + 1)

indexOf(arr, x) == indexOfFrom(arr, x, 1)

\* Array.prototype.includes
includes(arr, x) == \E i \in 1..Len(arr) : arr[i] = x

\* Array.prototype.splice(index, 1)
splice1(arr, i) == SubSeq(arr, 1, i - 1) \o SubSeq(arr, i + 1, Len(arr))

\* the elements of an array, as a set
Elems(arr) == {arr[i] : i \in 1..Len(arr)}

\* ------------------------------------------------------------ normalizePath
\* p.replace(/\\/g, "/")
replaceBackslashes(p) == [i \in 1..Len(p) |-> IF p[i] = "\\" THEN "/" ELSE p[i]]

\* .replace(/\/+/g, "/"): every run of slashes becomes one slash
RECURSIVE collapseSlashes(_)
collapseSlashes(p) ==
  IF Len(p) <= 1 THEN p
  ELSE IF p[1] = "/" /\ p[2] = "/" THEN collapseSlashes(Tail(p))
  ELSE <<p[1]>> \o collapseSlashes(Tail(p))

\* .replace(/\/$/, ""): one trailing slash is dropped
stripTrailingSlash(p) ==
  IF Len(p) > 0 /\ p[Len(p)] = "/" THEN SubSeq(p, 1, Len(p) - 1) ELSE p

\* the mutation: the trailing slash is dropped before the runs of slashes
\* are collapsed
normalizePathStripFirst(p) ==
  collapseSlashes(stripTrailingSlash(replaceBackslashes(p)))

normalizePath(p) == stripTrailingSlash(collapseSlashes(replaceBackslashes(p)))

\* --------------------------------------------------------- getParentFolders
\* String.prototype.split("/"): the segments between separators
RECURSIVE splitSlash(_)
splitSlash(p) ==
  IF \A i \in 1..Len(p) : p[i] # "/" THEN <<p>>
  ELSE LET k == CHOOSE i \in 1..Len(p) :
                  p[i] = "/" /\ \A j \in 1..(i - 1) : p[j] # "/"
       IN  <<SubSeq(p, 1, k - 1)>> \o splitSlash(SubSeq(p, k + 1, Len(p)))

\* Array.prototype.join("/")
RECURSIVE joinSlash(_)
joinSlash(parts) ==
  IF Len(parts) = 0 THEN <<>>
  ELSE IF Len(parts) = 1 THEN parts[1]
  ELSE parts[1] \o <<"/">> \o joinSlash(Tail(parts))

\* the mutation: the loop also runs for i = parts.length, so a path is
\* listed among its own parents
getParentFoldersInclSelf(filePath) ==
  LET parts == splitSlash(normalizePath(filePath))
  IN  [i \in 1..Len(parts) |-> joinSlash(SubSeq(parts, 1, i))]

\* for (i = 1; i < parts.length; i++) parents.push(parts.slice(0, i).join("/"))
getParentFolders(filePath) ==
  LET parts == splitSlash(normalizePath(filePath))
  IN  [i \in 1..(Len(parts) - 1) |-> joinSlash(SubSeq(parts, 1, i))]

\* Set.prototype.add over an array of values, kept in insertion order
RECURSIVE addAll(_, _)
addAll(acc, xs) ==
  IF Len(xs) = 0 THEN acc
  ELSE addAll(IF includes(acc, Head(xs)) THEN acc ELSE Append(acc, Head(xs)), Tail(xs))

RECURSIVE parentsOfAll(_, _)
parentsOfAll(lf, acc) ==
  IF Len(lf) = 0 THEN acc
  ELSE parentsOfAll(Tail(lf), addAll(acc, getParentFolders(Head(lf))))

\* the value assigned to instance.config.foldersWithLockedContent
updateFoldersWithLockedContent(lf) ==
  IF Len(lf) = 0 THEN <<>> ELSE parentsOfAll(lf, <<>>)

\* ------------------------------------------------------------------ queries
\* a "string | null" result: null, or a string
Null == [isNull |-> TRUE, path |-> <<>>]
Str(p) == [isNull |-> FALSE, path |-> p]

\* JavaScript truthiness of a "string | null": null and "" are falsy
truthy(r) == ~r.isNull /\ Len(r.path) > 0

\* isPathDirectlyLocked: the loop returns true at the first exact match
RECURSIVE isPathDirectlyLockedFrom(_, _, _)
isPathDirectlyLockedFrom(lf, normalizedTarget, i) ==
  IF i > Len(lf) THEN FALSE
  ELSE IF normalizedTarget = normalizePath(lf[i]) THEN TRUE
  ELSE isPathDirectlyLockedFrom(lf, normalizedTarget, i + 1)

isPathDirectlyLocked(lf, targetPath) ==
  IF Len(lf) = 0 THEN FALSE
  ELSE isPathDirectlyLockedFrom(lf, normalizePath(targetPath), 1)

\* the mutation: the inheritance test forgets the separator,
\* startsWith(normalizedLocked) instead of startsWith(normalizedLocked + "/")
RECURSIVE isPathLockedFromRawPrefix(_, _, _)
isPathLockedFromRawPrefix(lf, normalizedTarget, i) ==
  IF i > Len(lf) THEN FALSE
  ELSE LET normalizedLocked == normalizePath(lf[i])
       IN  IF normalizedTarget = normalizedLocked THEN TRUE
           ELSE IF startsWith(normalizedTarget, normalizedLocked) THEN TRUE
           ELSE isPathLockedFromRawPrefix(lf, normalizedTarget, i + 1)

\* the mutation: the loop tests inheritance only, without the exact match
RECURSIVE isPathLockedFromInheritedOnly(_, _, _)
isPathLockedFromInheritedOnly(lf, normalizedTarget, i) ==
  IF i > Len(lf) THEN FALSE
  ELSE LET normalizedLocked == normalizePath(lf[i])
       IN  IF startsWith(normalizedTarget, normalizedLocked \o <<"/">>) THEN TRUE
           ELSE isPathLockedFromInheritedOnly(lf, normalizedTarget, i + 1)

\* the loop of isPathLocked: exact match, or inside a locked directory
RECURSIVE isPathLockedFrom(_, _, _)
isPathLockedFrom(lf, normalizedTarget, i) ==
  IF i > Len(lf) THEN FALSE
  ELSE LET normalizedLocked == normalizePath(lf[i])
       IN  IF normalizedTarget = normalizedLocked THEN TRUE
           ELSE IF startsWith(normalizedTarget, normalizedLocked \o <<"/">>) THEN TRUE
           ELSE isPathLockedFrom(lf, normalizedTarget, i + 1)

isPathLocked(lf, targetPath) ==
  IF Len(lf) = 0 THEN FALSE
  ELSE isPathLockedFrom(lf, normalizePath(targetPath), 1)

\* the mutation: the fast path looks for marked folders inside the target
\* path only, not for the target path itself
hasLockedContentInsideOnly(fw, normalizedTarget) ==
  \E i \in 1..Len(fw) : startsWith(fw[i], normalizedTarget \o <<"/">>)

\* the fast path of containsLockedPath over foldersWithLockedContent
hasLockedContent(fw, normalizedTarget) ==
  \E i \in 1..Len(fw) :
    \/ fw[i] = normalizedTarget
    \/ startsWith(fw[i], normalizedTarget \o <<"/">>)

\* the detailed check: the first entry inside the target path
RECURSIVE firstLockedInside(_, _, _)
firstLockedInside(lf, normalizedTarget, i) ==
  IF i > Len(lf) THEN Null
  ELSE IF startsWith(normalizePath(lf[i]), normalizedTarget \o <<"/">>) THEN Str(lf[i])
  ELSE firstLockedInside(lf, normalizedTarget, i + 1)

containsLockedPath(lf, fw, targetPath) ==
  IF Len(lf) = 0 THEN Null
  ELSE LET normalizedTarget == normalizePath(targetPath)
       IN  IF Len(fw) > 0 /\ ~hasLockedContent(fw, normalizedTarget) THEN Null
           ELSE firstLockedInside(lf, normalizedTarget, 1)

isPathOrContentsLocked(lf, fw, targetPath) ==
  IF isPathLocked(lf, targetPath) THEN Str(targetPath)
  ELSE containsLockedPath(lf, fw, targetPath)

\* the loop of checkLockStatus: lockedPaths after the targets from the i-th
RECURSIVE checkLockStatusFrom(_, _, _, _, _, _)
checkLockStatusFrom(lf, fw, targets, checkContents, i, lockedPaths) ==
  IF i > Len(targets) THEN lockedPaths
  ELSE checkLockStatusFrom(lf, fw, targets, checkContents, i + 1,
         IF checkContents
           THEN IF truthy(isPathOrContentsLocked(lf, fw, targets[i]))
                  THEN Append(lockedPaths, isPathOrContentsLocked(lf, fw, targets[i]).path)
                  ELSE lockedPaths
           ELSE IF isPathLocked(lf, targets[i])
                  THEN Append(lockedPaths, targets[i])
                  ELSE lockedPaths)

\* checkLockStatus: { hasLocked, lockedPaths }
checkLockStatus(lf, fw, targets, checkContents) ==
  [hasLocked   |-> Len(checkLockStatusFrom(lf, fw, targets, checkContents, 1, <<>>)) > 0,
   lockedPaths |-> checkLockStatusFrom(lf, fw, targets, checkContents, 1, <<>>)]

\* --------------------------------------------------------------- propagator
\* What a registry operation leaves behind: the two arrays, the value it
\* returns ("true", "false", or "throw" when StorageSubsystem.store threw),
\* and the snapshots it handed to StorageSubsystem.store, in order.
Outcome(lf, fw, ret, stores) ==
  [lockedFiles |-> lf, foldersWithLockedContent |-> fw, ret |-> ret, stores |-> stores]

\* the mutation: when store throws the ancestor index is put back as it was
finishRestoresIndexOnThrow(lf, fw, modified, storeOk) ==
  IF modified
    THEN LET fw2 == updateFoldersWithLockedContent(lf)
         IN  Outcome(lf, IF storeOk THEN fw2 ELSE fw,
                     IF storeOk THEN "true" ELSE "throw",
                     <<[lockedFiles |-> lf, foldersWithLockedContent |-> fw2]>>)
    ELSE Outcome(lf, fw, "false", <<>>)

\* the mutation: store is called before the ancestor index is rebuilt
finishStoreBeforeRebuild(lf, fw, modified, storeOk) ==
  IF modified
    THEN Outcome(lf, updateFoldersWithLockedContent(lf),
                 IF storeOk THEN "true" ELSE "throw",
                 <<[lockedFiles |-> lf, foldersWithLockedContent |-> fw]>>)
    ELSE Outcome(lf, fw, "false", <<>>)

\* if (modified) { updateFoldersWithLockedContent; store } return modified
finish(lf, fw, modified, storeOk) ==
  IF modified
    THEN LET fw2 == updateFoldersWithLockedContent(lf)
         IN  Outcome(lf, fw2, IF storeOk THEN "true" ELSE "throw",
                     <<[lockedFiles |-> lf, foldersWithLockedContent |-> fw2]>>)
    ELSE Outcome(lf, fw, "false", <<>>)

\* for (const pathToRemove of pathsToRemove) { indexOf; splice }
RECURSIVE removeEach(_, _)
removeEach(lf, pathsToRemove) ==
  IF Len(pathsToRemove) = 0 THEN lf
  ELSE LET idx == indexOf(lf, Head(pathsToRemove))
       IN  removeEach(IF idx > 0 THEN splice1(lf, idx) ELSE lf, Tail(pathsToRemove))

\* the mutation: nested entries are matched by the raw prefix, without "/"
nestedUnderRawPrefix(lf, normalizedTarget) ==
  SelectSeq(lf, LAMBDA lockedPath : startsWith(lockedPath, normalizedTarget))

\* pathsToRemove: the entries that start with normalizedTarget + "/"
nestedUnder(lf, normalizedTarget) ==
  SelectSeq(lf, LAMBDA lockedPath : startsWith(lockedPath, normalizedTarget \o <<"/">>))

removeLockForPath(lf, fw, targetPath, storeOk) ==
  LET normalizedTarget == normalizePath(targetPath)
      index            == indexOf(lf, normalizedTarget)
      lf1              == IF index > 0 THEN splice1(lf, index) ELSE lf
      pathsToRemove    == nestedUnder(lf1, normalizedTarget)
      lf2              == removeEach(lf1, pathsToRemove)
      modified         == index > 0 \/ Len(pathsToRemove) > 0
  IN  finish(lf2, fw, modified, storeOk)

\* the mutation: the destination is locked whenever the source is effectively
\* locked, by an entry of its own or by one of an ancestor
copyLockForPathInherited(lf, fw, sourcePath, destPath, storeOk) ==
  LET normalizedSource == normalizePath(sourcePath)
      normalizedDest   == normalizePath(destPath)
  IN  IF isPathLocked(lf, normalizedSource)
        THEN IF ~includes(lf, normalizedDest)
               THEN finish(Append(lf, normalizedDest), fw, TRUE, storeOk)
               ELSE Outcome(lf, fw, "true", <<>>)
        ELSE Outcome(lf, fw, "false", <<>>)

copyLockForPath(lf, fw, sourcePath, destPath, storeOk) ==
  LET normalizedSource == normalizePath(sourcePath)
      normalizedDest   == normalizePath(destPath)
  IN  IF includes(lf, normalizedSource)
        THEN IF ~includes(lf, normalizedDest)
               THEN finish(Append(lf, normalizedDest), fw, TRUE, storeOk)
               ELSE Outcome(lf, fw, "true", <<>>)
        ELSE Outcome(lf, fw, "false", <<>>)

\* the mutation: the destination is pushed without the includes test
moveSourceLockNoDedup(lf, normalizedSource, normalizedDest) ==
  LET sourceIndex == indexOf(lf, normalizedSource)
  IN  IF sourceIndex > 0
        THEN Append(splice1(lf, sourceIndex), normalizedDest)
        ELSE lf

\* Case 1 of moveLockForPath: the source itself is directly locked
moveSourceLock(lf, normalizedSource, normalizedDest) ==
  LET sourceIndex == indexOf(lf, normalizedSource)
  IN  IF sourceIndex > 0
        THEN LET removed == splice1(lf, sourceIndex)
             IN  IF ~includes(removed, normalizedDest)
                   THEN Append(removed, normalizedDest)
                   ELSE removed
        ELSE lf

\* the mutation: the new path of a nested entry is joined without the separator
updatedPathsNoSeparator(lf, normalizedSource, normalizedDest) ==
  LET sourcePrefix == normalizedSource \o <<"/">>
      inside       == SelectSeq(lf, LAMBDA lockedPath : startsWith(lockedPath, sourcePrefix))
  IN  [i \in 1..Len(inside) |->
         [oldPath |-> inside[i],
          newPath |-> normalizedDest \o substring(inside[i], Len(sourcePrefix))]]

\* updatedPaths: {oldPath, newPath} of every entry inside the moved folder
updatedPaths(lf, normalizedSource, normalizedDest) ==
  LET sourcePrefix == normalizedSource \o <<"/">>
      inside       == SelectSeq(lf, LAMBDA lockedPath : startsWith(lockedPath, sourcePrefix))
  IN  [i \in 1..Len(inside) |->
         [oldPath |-> inside[i],
          newPath |-> normalizedDest \o <<"/">> \o substring(inside[i], Len(sourcePrefix))]]

\* Apply the path updates: splice the old path, push the new one if absent
RECURSIVE applyUpdates(_, _)
applyUpdates(lf, updates) ==
  IF Len(updates) = 0 THEN lf
  ELSE LET idx == indexOf(lf, Head(updates).oldPath)
           lf1 == IF idx > 0
                    THEN LET removed == splice1(lf, idx)
                         IN  IF ~includes(removed, Head(updates).newPath)
                               THEN Append(removed, Head(updates).newPath)
                               ELSE removed
                    ELSE lf
       IN  applyUpdates(lf1, Tail(updates))

moveLockForPath(lf, fw, sourcePath, destPath, storeOk) ==
  LET normalizedSource == normalizePath(sourcePath)
      normalizedDest   == normalizePath(destPath)
      sourceIndex      == indexOf(lf, normalizedSource)
      lf1              == moveSourceLock(lf, normalizedSource, normalizedDest)
      updates          == updatedPaths(lf1, normalizedSource, normalizedDest)
      lf2              == applyUpdates(lf1, updates)
      modified         == sourceIndex > 0 \/ Len(updates) > 0
  IN  finish(lf2, fw, modified, storeOk)

\* the mutation: locking a folder absorbs the entries nested under it
addLockAbsorbing(lf, fw, targetPath, storeOk) ==
  LET normalizedTarget == normalizePath(targetPath)
  IN  IF includes(lf, normalizedTarget)
        THEN Outcome(lf, fw, "false", <<>>)
        ELSE finish(Append(removeEach(lf, nestedUnder(lf, normalizedTarget)),
                           normalizedTarget),
                    fw, TRUE, storeOk)

\* the mutation: locking an already locked path stores again and reports true
addLockAgain(lf, fw, targetPath, storeOk) ==
  LET normalizedTarget == normalizePath(targetPath)
  IN  IF includes(lf, normalizedTarget)
        THEN finish(lf, fw, TRUE, storeOk)
        ELSE finish(Append(lf, normalizedTarget), fw, TRUE, storeOk)

addLock(lf, fw, targetPath, storeOk) ==
  LET normalizedTarget == normalizePath(targetPath)
  IN  IF includes(lf, normalizedTarget)
        THEN Outcome(lf, fw, "false", <<>>)
        ELSE finish(Append(lf, normalizedTarget), fw, TRUE, storeOk)

\* the mutation: unlocking a folder also drops the entries nested under it
removeLockDeep(lf, fw, targetPath, storeOk) ==
  LET normalizedTarget == normalizePath(targetPath)
      index            == indexOf(lf, normalizedTarget)
  IN  IF index = 0
        THEN Outcome(lf, fw, "false", <<>>)
        ELSE finish(removeEach(splice1(lf, index), nestedUnder(lf, normalizedTarget)),
                    fw, TRUE, storeOk)

removeLock(lf, fw, targetPath, storeOk) ==
  LET normalizedTarget == normalizePath(targetPath)
      index            == indexOf(lf, normalizedTarget)
  IN  IF index = 0
        THEN Outcome(lf, fw, "false", <<>>)
        ELSE finish(splice1(lf, index), fw, TRUE, storeOk)

\* ---------------------------------------------------------------- requests
\* A request is an event name and its data.  A field that is absent from the
\* data is Undefined (isAdmin, instanceUuid) or Null (target); data.targets
\* is absent, a single string, or an array whose items are [source, dest]
\* pairs (file/copy, file/move) or paths (file/delete, file/compress: the
\* dest of the item is not used).
Undefined == "undefined"

\* longest targets array of a request
MaxBatch == 2

\* the paths named by data.target: the instance root in three spellings, a
\* folder in two, a file in it, and a sibling that shares the folder's letters
TargetPaths ==
  {<<>>, <<"/">>, <<"\\">>, <<"a">>, <<"a", "\\">>, <<"a", "/", "a">>, <<"a", "a">>}

\* the paths named by data.target of file/list, file/edit and file/chmod:
\* those, and the current directory
ForwardPaths == TargetPaths \cup {<<".">>}

\* the paths named by the items of data.targets: the empty string, a folder
\* (spelled with a trailing backslash) and a file in it
BatchPaths == {<<>>, <<"a", "\\">>, <<"a", "/", "a">>}

\* the events with a handler in file_router.ts that the model dispatches
FileEvents ==
  {"file/list", "file/edit", "file/chmod", "file/status", "file/touch", "file/mkdir",
   "file/copy", "file/move", "file/delete", "file/compress", "file/lock", "file/unlock"}

\* event.startsWith("file/")
startsWithFile(event) == event \in FileEvents

\* InstanceSubsystem.getInstance: the daemon holds the one instance "inst"
instanceExists(instanceUuid) == instanceUuid = "inst"

\* instance.status(): only BUSY and STARTING are told apart by this code
Statuses == {"BUSY", "STARTING", "RUNNING"}

NoTargets == [kind |-> "undefined", items |-> <<>>]
ArrayOf(items) == [kind |-> "array", items |-> items]
StringOf(p) == [kind |-> "string", items |-> <<<<p, <<>>>>>>]

\* the events of FILE_LOCK_CHECK_CONFIGS
ConfiguredEvents ==
  {"file/list", "file/edit", "file/chmod", "file/copy", "file/move",
   "file/delete", "file/compress"}

\* findConfig(event) is defined
findConfig(event) == event \in ConfiguredEvents

\* the mutation: file/list checks the contents of the directory as well
checkContentsOfEveryEvent(event) == event = event

\* config.checkContents !== false
checkContentsOf(event) == event # "file/list"

\* the mutation: file/list extracts the root and the current directory too
getTargetsNoRootSkip(event, data) ==
  CASE event \in {"file/list", "file/edit", "file/chmod"} ->
         IF truthy(data.target) THEN <<data.target.path>> ELSE <<>>
    [] event \in {"file/copy", "file/move", "file/delete", "file/compress"} ->
         IF data.targets.kind # "array" THEN <<>>
         ELSE [i \in 1..Len(data.targets.items) |-> data.targets.items[i][1]]

\* the mutation: file/copy and file/move extract the destinations as well
getTargetsWithDestinations(event, data) ==
  CASE event = "file/list" ->
         IF \/ ~truthy(data.target)
            \/ data.target.path = <<"/">>
            \/ data.target.path = <<".">>
           THEN <<>> ELSE <<data.target.path>>
    [] event \in {"file/edit", "file/chmod"} ->
         IF truthy(data.target) THEN <<data.target.path>> ELSE <<>>
    [] event \in {"file/copy", "file/move"} ->
         IF data.targets.kind # "array" THEN <<>>
         ELSE [i \in 1..Len(data.targets.items) |-> data.targets.items[i][1]]
                \o [i \in 1..Len(data.targets.items) |-> data.targets.items[i][2]]
    [] event \in {"file/delete", "file/compress"} ->
         IF data.targets.kind # "array" THEN <<>>
         ELSE [i \in 1..Len(data.targets.items) |-> data.targets.items[i][1]]

\* config.getTargets(data)
getTargets(event, data) ==
  CASE event = "file/list" ->
         IF \/ ~truthy(data.target)
            \/ data.target.path = <<"/">>
            \/ data.target.path = <<".">>
           THEN <<>> ELSE <<data.target.path>>
    [] event \in {"file/edit", "file/chmod"} ->
         IF truthy(data.target) THEN <<data.target.path>> ELSE <<>>
    [] event \in {"file/copy", "file/move", "file/delete", "file/compress"} ->
         IF data.targets.kind # "array" THEN <<>>
         ELSE [i \in 1..Len(data.targets.items) |-> data.targets.items[i][1]]

\* a value of data.target, or an item of data.targets, that is truthy and
\* not a string (a number, an object): the payload is "any"
NotAString == <<"[object]">>

\* normalizePath of such a value throws: p.replace is not a function
TypeError == [isNull |-> TRUE, path |-> NotAString]

\* the loop of checkTargetsLocked: the first locked path found, or null.
\* isPathLocked and containsLockedPath return before normalizePath when the
\* registry is empty, and call it on the target otherwise.
RECURSIVE checkTargetsLockedFrom(_, _, _, _, _)
checkTargetsLockedFrom(lf, fw, targets, checkContents, i) ==
  IF i > Len(targets) THEN Null
  ELSE IF targets[i] = NotAString
    THEN IF Len(lf) = 0
           THEN checkTargetsLockedFrom(lf, fw, targets, checkContents, i + 1)
           ELSE TypeError
  ELSE IF checkContents
    THEN LET lockedPath == isPathOrContentsLocked(lf, fw, targets[i])
         IN  IF truthy(lockedPath) THEN lockedPath
             ELSE checkTargetsLockedFrom(lf, fw, targets, checkContents, i + 1)
    ELSE IF isPathLocked(lf, targets[i]) THEN Str(targets[i])
         ELSE checkTargetsLockedFrom(lf, fw, targets, checkContents, i + 1)

checkTargetsLocked(lf, fw, instanceUuid, targets, checkContents) ==
  IF ~instanceExists(instanceUuid) THEN Null
  ELSE checkTargetsLockedFrom(lf, fw, targets, checkContents, 1)

\* the mutation: any truthy data.isAdmin passes for an administrator
fileLockMiddlewareTruthyAdmin(lf, fw, event, data) ==
  IF ~startsWithFile(event) THEN "next"
  ELSE IF ~findConfig(event) THEN "next"
  ELSE IF data.isAdmin \in {"true", "yes"} THEN "next"
  ELSE IF data.instanceUuid = Undefined THEN "next"
  ELSE LET targets == getTargets(event, data)
       IN  IF Len(targets) = 0 THEN "next"
           ELSE IF truthy(checkTargetsLocked(lf, fw, data.instanceUuid, targets,
                                             checkContentsOf(event)))
             THEN "error"
             ELSE "next"

\* the mutation: the middleware refuses file/lock and file/unlock without
\* the admin flag
fileLockMiddlewareGuardsLock(lf, fw, event, data) ==
  IF ~startsWithFile(event) THEN "next"
  ELSE IF event \in {"file/lock", "file/unlock"} /\ data.isAdmin # "true" THEN "error"
  ELSE IF ~findConfig(event) THEN "next"
  ELSE IF data.isAdmin = "true" THEN "next"
  ELSE IF data.instanceUuid = Undefined THEN "next"
  ELSE LET targets == getTargets(event, data)
       IN  IF Len(targets) = 0 THEN "next"
           ELSE IF truthy(checkTargetsLocked(lf, fw, data.instanceUuid, targets,
                                             checkContentsOf(event)))
             THEN "error"
             ELSE "next"

\* fileLockMiddleware: "next" when it calls next(), "error" when it answers
\* protocol.error with the file-locked message and returns, "throw" when an
\* exception leaves it before either
fileLockMiddleware(lf, fw, event, data) ==
  IF ~startsWithFile(event) THEN "next"
  ELSE IF ~findConfig(event) THEN "next"
  ELSE IF data.isAdmin = "true" THEN "next"
  ELSE IF data.instanceUuid = Undefined THEN "next"
  ELSE LET targets == getTargets(event, data)
       IN  IF Len(targets) = 0 THEN "next"
           ELSE IF checkTargetsLocked(lf, fw, data.instanceUuid, targets,
                                      checkContentsOf(event)) = TypeError
             THEN "throw"
           ELSE IF truthy(checkTargetsLocked(lf, fw, data.instanceUuid, targets,
                                             checkContentsOf(event)))
             THEN "error"
             ELSE "next"

\* the authentication middleware at the top of file_router.ts
authMiddleware(event, data, status) ==
  IF startsWithFile(event)
    THEN IF ~instanceExists(data.instanceUuid) THEN "error"
         ELSE IF status \in {"BUSY", "STARTING"} /\ event \notin {"file/list", "file/status"}
           THEN "error"
           ELSE "next"
    ELSE "next"

\* ---------------------------------------------------------------- handlers
\* the file manager method a handler calls for one item of its work
fmMethod(event) ==
  CASE event = "file/touch"    -> "newFile"
    [] event = "file/mkdir"    -> "mkdir"
    [] event = "file/copy"     -> "copy"
    [] event = "file/move"     -> "move"
    [] event = "file/delete"   -> "delete"
    [] event = "file/edit"     -> "edit"
    [] event = "file/chmod"    -> "chmod"
    [] event = "file/list"     -> "list"
    [] event = "file/compress" -> "zip"

\* the mutation: file/touch and file/mkdir leave the registry alone
propagateNoCreateCleanup(event, lf, fw, item, storeOk) ==
  CASE event = "file/delete" -> removeLockForPath(lf, fw, item[1], storeOk)
    [] event = "file/copy" -> copyLockForPath(lf, fw, item[1], item[2], storeOk)
    [] event = "file/move" -> moveLockForPath(lf, fw, item[1], item[2], storeOk)
    [] OTHER -> Outcome(lf, fw, "false", <<>>)

\* the propagator call that follows the file manager call of one item;
\* file/list, file/edit, file/chmod and file/compress make none
propagate(event, lf, fw, item, storeOk) ==
  CASE event \in {"file/touch", "file/mkdir", "file/delete"} ->
         removeLockForPath(lf, fw, item[1], storeOk)
    [] event = "file/copy" -> copyLockForPath(lf, fw, item[1], item[2], storeOk)
    [] event = "file/move" -> moveLockForPath(lf, fw, item[1], item[2], storeOk)
    [] OTHER -> Outcome(lf, fw, "false", <<>>)

\* the names of the items fileManager.list returns: what the directory holds
\* is not the router's to decide
Overviews == {<<>>, <<<<"a">>>>, <<<<"a">>, <<"a", "a">>>>}

\* the path of a listed item: target + "/" + item.name normalised, or the
\* bare item.name when the request names no directory
itemPath(target, name) ==
  IF truthy(target) THEN normalizePath(target.path \o <<"/">> \o name) ELSE name

\* the mutation: an item shows the lock it inherits from its folders too
listedItemsInherited(lf, target, overview) ==
  [i \in 1..Len(overview) |->
     [name |-> overview[i], locked |-> isPathLocked(lf, itemPath(target, overview[i]))]]

\* overview.items.map(...): each item with its locked flag
listedItems(lf, target, overview) ==
  [i \in 1..Len(overview) |->
     [name   |-> overview[i],
      locked |-> isPathDirectlyLocked(lf, itemPath(target, overview[i]))]]

\* the mutation: the handler works through data.targets from its last item
iteratedBackwards(targets) ==
  IF targets.kind = "array"
    THEN [i \in 1..Len(targets.items) |-> targets.items[Len(targets.items) + 1 - i]]
    ELSE LET str == targets.items[1][1]
         IN  [i \in 1..Len(str) |-> <<<<str[Len(str) + 1 - i]>>, <<>>>>]

\* what "for (const target of data.targets)" iterates over: the items of an
\* array, the characters of a string
iterated(targets) ==
  IF targets.kind = "array" THEN targets.items
  ELSE LET str == targets.items[1][1]
       IN  [i \in 1..Len(str) |-> <<<<str[i]>>, <<>>>>]

\* The handler up to its first call on the file manager or the registry:
\* the items it will work through, and its response if it already answers
\* ("error" when iterating an absent data.targets throws, "ok" when there
\* is nothing to do).
started(event, data) ==
  CASE event \in {"file/copy", "file/move", "file/delete"} ->
         IF data.targets.kind = "undefined"
           THEN [items |-> <<>>, resp |-> "error"]
           ELSE [items |-> iterated(data.targets),
                 resp  |-> IF Len(iterated(data.targets)) = 0 THEN "ok" ELSE "none"]
    [] event = "file/status" -> [items |-> <<>>, resp |-> "ok"]
    [] OTHER -> [items |-> <<<<data.target.path, <<>>>>>>, resp |-> "none"]

\* The router runs the middlewares in turn, and the handler when both call
\* next(): auth and lock are what each middleware did ("next", "error", or
\* "notrun" for the lock middleware behind a refusing authentication).
route(lf, fw, event, data, status) ==
  LET auth == authMiddleware(event, data, status)
  IN  IF auth = "error"
        THEN [auth |-> "error", lock |-> "notrun", handled |-> FALSE,
              items |-> <<>>, resp |-> "error"]
        ELSE IF fileLockMiddleware(lf, fw, event, data) = "error"
          THEN [auth |-> "next", lock |-> "error", handled |-> FALSE,
                items |-> <<>>, resp |-> "error"]
          ELSE [auth |-> "next", lock |-> "next", handled |-> TRUE,
                items |-> started(event, data).items,
                resp |-> started(event, data).resp]

\* ------------------------------------------------------------------- state
VARIABLES
  lockedFiles,               \* instance.config.lockedFiles
  foldersWithLockedContent,  \* instance.config.foldersWithLockedContent
  call,                      \* the service call that has just returned, if any
  req,                       \* the request being handled or just answered, if any
  procs,                     \* the handlers in flight when requests overlap
  fileLock,                  \* instance.info.fileLock of every instance
  fileTaskCount,             \* globalEnv.fileTaskCount
  maxFileTask,               \* globalConfiguration.config.maxFileTask
  tasks,                     \* the file/compress requests in flight or answered
  instanceStatus             \* instance.status(), as overlapping requests find it

\* the state of the file task statistics
counters == <<fileLock, fileTaskCount, maxFileTask, tasks>>

vars == <<lockedFiles, foldersWithLockedContent, call, req, procs, counters, instanceStatus>>

\* no call has returned since the caller last looked
NoCall ==
  [op |-> "none", source |-> <<>>, dest |-> <<>>, ret |-> "none", stores |-> <<>>,
   pre |-> <<>>, preFolders |-> <<>>,
   chained |-> FALSE, pre0 |-> <<>>, preFolders0 |-> <<>>,
   targets |-> <<>>, checkContents |-> FALSE, lockedPaths |-> <<>>]

\* A call directly follows the previous one, with no other call in between,
\* in the two-call sequences the registry's laws speak about:
\* removeLock(P) right after addLock(P).
Idle == call.op = "none"

FollowsAddLock == call.op = "addLock"

FollowsMoveLockForPath == call.op = "moveLockForPath"

\* the registry stays within the bounds of the model
WithinBounds(lf) ==
  /\ Len(lf) <= MaxLocks
  /\ \A i \in 1..Len(lf) : Len(lf[i]) <= MaxPathLen

\* the call returns (or throws out of store): the arrays are what it left,
\* and the caller sees its arguments, its result and the arrays before it
Returns(op, source, dest, out) ==
  /\ WithinBounds(out.lockedFiles)
  /\ lockedFiles' = out.lockedFiles
  /\ foldersWithLockedContent' = out.foldersWithLockedContent
  /\ call' = [op |-> op, source |-> source, dest |-> dest,
              ret |-> out.ret, stores |-> out.stores,
              pre |-> lockedFiles, preFolders |-> foldersWithLockedContent,
              chained |-> call.op # "none",
              pre0 |-> call.pre, preFolders0 |-> call.preFolders,
              targets |-> <<>>, checkContents |-> FALSE, lockedPaths |-> <<>>]
  /\ UNCHANGED <<req, procs, counters, instanceStatus>>

\* a query returns: nothing changes but the caller's view
Answers(op, source, answer) ==
  Returns(op, source, <<>>,
          Outcome(lockedFiles, foldersWithLockedContent,
                  IF answer THEN "true" ELSE "false", <<>>))

\* no request has been answered since the client last looked
NoReq ==
  [event |-> "none",
   data |-> [instanceUuid |-> Undefined, isAdmin |-> Undefined,
             target |-> Null, targets |-> NoTargets],
   status |-> "RUNNING", auth |-> "notrun", lock |-> "notrun", handled |-> FALSE,
   items |-> <<>>, done |-> 0, fm |-> <<>>, stores |-> <<>>, resp |-> "none",
   thrown |-> "none", listed |-> <<>>, pre |-> <<>>, preFolders |-> <<>>]

\* most handlers in flight at once
MaxInflight == 2

Slots == 1..MaxInflight

\* no handler in this slot
NoProc ==
  [event |-> "none", isAdmin |-> Undefined, items |-> <<>>, done |-> 0, pc |-> "none"]

\* largest configured limit of file tasks of one instance
MaxFileTask == 2

\* most file/compress requests in flight or answered and not yet collected
MaxTasks == 3

TaskSlots == 1..MaxTasks

\* the instances of the daemon
Instances == {"inst", "other"}

\* no file/compress request occupies the slot
NoTask ==
  [pc |-> "free", instanceUuid |-> Undefined, type |-> 0, seen |-> -1,
   started |-> 0, ended |-> 0, fm |-> "none", resp |-> "none"]

Init ==
  /\ lockedFiles = <<>>
  /\ foldersWithLockedContent = <<>>
  /\ call = NoCall
  /\ req = NoReq
  /\ procs = [p \in Slots |-> NoProc]
  /\ fileLock = [i \in Instances |-> 0]
  /\ fileTaskCount = 0
  /\ maxFileTask = MaxFileTask
  /\ tasks = [t \in TaskSlots |-> NoTask]
  /\ instanceStatus = "RUNNING"

\* ----------------------------------------------------------- service calls
\* the targets arrays of checkLockStatus: at most MaxBatch paths
RECURSIVE PathArrays(_)
PathArrays(n) ==
  IF n = 0 THEN {<<>>}
  ELSE PathArrays(n - 1)
         \cup {Append(a, p) : a \in {b \in PathArrays(n - 1) : Len(b) = n - 1},
                              p \in TargetPaths}

QueryTargets == PathArrays(MaxBatch)

CallAddLock ==
  /\ Idle
  /\ \E targetPath \in RawPaths, storeOk \in BOOLEAN :
       Returns("addLock", targetPath, <<>>,
               addLock(lockedFiles, foldersWithLockedContent, targetPath, storeOk))

CallRemoveLock ==
  /\ Idle
  /\ \E targetPath \in RawPaths, storeOk \in BOOLEAN :
       Returns("removeLock", targetPath, <<>>,
               removeLock(lockedFiles, foldersWithLockedContent, targetPath, storeOk))

\* removeLock(P) called right after addLock(P) returned
CallRemoveLockAfterAddLock ==
  /\ FollowsAddLock
  /\ \E storeOk \in BOOLEAN :
       Returns("removeLock", call.source, <<>>,
               removeLock(lockedFiles, foldersWithLockedContent, call.source, storeOk))

CallRemoveLockForPath ==
  /\ Idle
  /\ \E targetPath \in RawPaths, storeOk \in BOOLEAN :
       Returns("removeLockForPath", targetPath, <<>>,
               removeLockForPath(lockedFiles, foldersWithLockedContent, targetPath, storeOk))

CallCopyLockForPath ==
  /\ Idle
  /\ \E sourcePath \in RawPaths, destPath \in RawPaths, storeOk \in BOOLEAN :
       Returns("copyLockForPath", sourcePath, destPath,
               copyLockForPath(lockedFiles, foldersWithLockedContent,
                               sourcePath, destPath, storeOk))

CallMoveLockForPath ==
  /\ Idle
  /\ \E sourcePath \in RawPaths, destPath \in RawPaths, storeOk \in BOOLEAN :
       Returns("moveLockForPath", sourcePath, destPath,
               moveLockForPath(lockedFiles, foldersWithLockedContent,
                               sourcePath, destPath, storeOk))

\* moveLockForPath(D, S) called right after moveLockForPath(S, D) returned
CallMoveLockForPathBack ==
  /\ FollowsMoveLockForPath
  /\ \E storeOk \in BOOLEAN :
       Returns("moveLockForPath", call.dest, call.source,
               moveLockForPath(lockedFiles, foldersWithLockedContent,
                               call.dest, call.source, storeOk))

CallIsPathLocked ==
  /\ Idle
  /\ \E targetPath \in RawPaths :
       Answers("isPathLocked", targetPath, isPathLocked(lockedFiles, targetPath))

CallIsPathDirectlyLocked ==
  /\ Idle
  /\ \E targetPath \in RawPaths :
       Answers("isPathDirectlyLocked", targetPath,
               isPathDirectlyLocked(lockedFiles, targetPath))

\* checkLockStatus(instance, targets, checkContents) returns its result
CallCheckLockStatus ==
  /\ Idle
  /\ \E targets \in QueryTargets, checkContents \in BOOLEAN :
       \E result \in {checkLockStatus(lockedFiles, foldersWithLockedContent,
                                      targets, checkContents)} :
         /\ call' = [NoCall EXCEPT
                       !.op = "checkLockStatus",
                       !.targets = targets,
                       !.checkContents = checkContents,
                       !.lockedPaths = result.lockedPaths,
                       !.ret = IF result.hasLocked THEN "true" ELSE "false",
                       !.pre = lockedFiles,
                       !.preFolders = foldersWithLockedContent]
         /\ UNCHANGED <<lockedFiles, foldersWithLockedContent, req, procs, counters, instanceStatus>>

\* containsLockedPath(instance, targetPath) returns an entry or null
CallContainsLockedPath ==
  /\ Idle
  /\ \E targetPath \in RawPaths :
       \E lockedPath \in {containsLockedPath(lockedFiles, foldersWithLockedContent,
                                             targetPath)} :
         /\ call' = [NoCall EXCEPT
                       !.op = "containsLockedPath",
                       !.source = targetPath,
                       !.ret = IF lockedPath.isNull THEN "null" ELSE "string",
                       !.lockedPaths = IF lockedPath.isNull THEN <<>>
                                       ELSE <<lockedPath.path>>,
                       !.pre = lockedFiles,
                       !.preFolders = foldersWithLockedContent]
         /\ UNCHANGED <<lockedFiles, foldersWithLockedContent, req, procs, counters, instanceStatus>>

\* the caller has looked at the result and goes on
Return ==
  /\ ~Idle
  /\ call' = NoCall
  /\ UNCHANGED <<lockedFiles, foldersWithLockedContent, req, procs, counters, instanceStatus>>

Next ==
  \/ CallAddLock
  \/ CallRemoveLock
  \/ CallRemoveLockAfterAddLock
  \/ CallRemoveLockForPath
  \/ CallCopyLockForPath
  \/ CallMoveLockForPath
  \/ CallMoveLockForPathBack
  \/ CallIsPathLocked
  \/ CallIsPathDirectlyLocked
  \/ CallCheckLockStatus
  \/ CallContainsLockedPath
  \/ Return

\* any sequence of calls on the registry of one instance
Spec == Init /\ [][Next]_vars

\* ----------------------------------------------------------------- requests
\* the values of data.isAdmin: the booleans, a truthy value that is not the
\* boolean true (1, "true", "yes"), and an absent field
AdminFlags == {"true", "false", "yes", Undefined}

\* the targets arrays of at most MaxBatch items over BatchPaths
PairItems == {<<s, d>> : s \in BatchPaths, d \in BatchPaths}
PathItems == {<<s, <<>>>> : s \in BatchPaths}

RECURSIVE ArraysUpTo(_, _)
ArraysUpTo(Items, n) ==
  IF n = 0 THEN {<<>>}
  ELSE LET shorter == ArraysUpTo(Items, n - 1)
       IN  shorter \cup {Append(a, x) : a \in {b \in shorter : Len(b) = n - 1}, x \in Items}

PairTargets == {NoTargets} \cup {ArrayOf(a) : a \in ArraysUpTo(PairItems, MaxBatch)}
PathTargets ==
  {NoTargets} \cup {StringOf(p) : p \in BatchPaths}
              \cup {ArrayOf(a) : a \in ArraysUpTo(PathItems, MaxBatch)}

NoRequest == req.event = "none"

\* The event is routed: the middlewares run and, when both call next(), the
\* handler starts.  req holds the request, what the middlewares did, the
\* items the handler works through and how many it has done, its calls on
\* the file manager and on store, which of the two threw, its response ("none" until it answers,
\* "ok" for protocol.response, "error" for protocol.error and
\* protocol.responseError), and the arrays as they were when it arrived.
Dispatch(event, data, status) ==
  \E r \in {route(lockedFiles, foldersWithLockedContent, event, data, status)} :
    /\ req' = [event |-> event, data |-> data, status |-> status,
               auth |-> r.auth, lock |-> r.lock, handled |-> r.handled,
               items |-> r.items, done |-> 0, fm |-> <<>>, stores |-> <<>>,
               resp |-> r.resp, thrown |-> "none", listed |-> <<>>,
               pre |-> lockedFiles, preFolders |-> foldersWithLockedContent]
    /\ UNCHANGED <<lockedFiles, foldersWithLockedContent, call, procs, counters, instanceStatus>>

Data(isAdmin, target, targets) ==
  [instanceUuid |-> "inst", isAdmin |-> isAdmin, target |-> target, targets |-> targets]

\* file/list, file/edit, file/chmod: data.target is a string or absent
DispatchForward ==
  /\ NoRequest
  /\ \E event \in {"file/list", "file/edit", "file/chmod"}, status \in Statuses :
       /\ authMiddleware(event, Data(Undefined, Null, NoTargets), status) = "next"
       /\ \E isAdmin \in AdminFlags,
             target \in {Null} \cup {Str(p) : p \in ForwardPaths} :
            Dispatch(event, Data(isAdmin, target, NoTargets), status)

\* file/touch, file/mkdir, file/lock, file/unlock: data.target is a string
DispatchTarget ==
  /\ NoRequest
  /\ \E event \in {"file/touch", "file/mkdir", "file/lock", "file/unlock"},
        status \in Statuses :
       /\ authMiddleware(event, Data(Undefined, Null, NoTargets), status) = "next"
       /\ \E isAdmin \in AdminFlags, p \in TargetPaths :
            Dispatch(event, Data(isAdmin, Str(p), NoTargets), status)

\* file/copy, file/move: data.targets is an array of pairs or absent
DispatchPairs ==
  /\ NoRequest
  /\ \E event \in {"file/copy", "file/move"}, status \in Statuses :
       /\ authMiddleware(event, Data(Undefined, Null, NoTargets), status) = "next"
       /\ \E isAdmin \in AdminFlags, targets \in PairTargets :
            Dispatch(event, Data(isAdmin, Null, targets), status)

\* file/delete, file/compress: data.targets is an array of paths, a string
\* or absent
DispatchPaths ==
  /\ NoRequest
  /\ \E event \in {"file/delete", "file/compress"}, status \in Statuses :
       /\ authMiddleware(event, Data(Undefined, Null, NoTargets), status) = "next"
       /\ \E isAdmin \in AdminFlags, targets \in PathTargets :
            Dispatch(event, Data(isAdmin, Null, targets), status)

DispatchStatus ==
  /\ NoRequest
  /\ \E status \in Statuses, isAdmin \in AdminFlags :
       Dispatch("file/status", Data(isAdmin, Null, NoTargets), status)

\* a request the authentication middleware answers with an error: the
\* instance is unknown or not named, or it is busy or starting
DispatchRefused ==
  /\ NoRequest
  /\ \E event \in FileEvents, status \in Statuses,
        instanceUuid \in {"inst", "ghost", Undefined} :
       LET data == [Data(Undefined, Null, NoTargets) EXCEPT !.instanceUuid = instanceUuid]
       IN  /\ authMiddleware(event, data, status) = "error"
           /\ \E isAdmin \in AdminFlags, p \in BatchPaths :
                Dispatch(event,
                         [data EXCEPT !.isAdmin = isAdmin, !.target = Str(p),
                                      !.targets = ArrayOf(<<<<p, p>>>>)],
                         status)

\* the calls on the file manager that start an operation the handler does
\* not wait for ("// async delete", not awaited): the operation can fail
\* after the call has returned, unseen by the handler
Unawaited == {"file/delete"}

\* The handler of every event but file/lock and file/unlock works on its
\* next item: it calls the file manager, which may throw, and then the
\* propagator, whose store may throw; a throw ends the handler in its catch
\* block (responseError); after the last item it answers protocol.response.
\* An operation that is not awaited may also fail later (rejects): the
\* handler goes on as if it had succeeded.
HandleItem ==
  /\ req.resp = "none"
  /\ req.event \notin {"none", "file/lock", "file/unlock"}
  /\ \E fmOk \in BOOLEAN, storeOk \in BOOLEAN,
        overview \in IF req.event = "file/list" THEN Overviews ELSE {<<>>},
        rejects \in IF req.event \in Unawaited THEN BOOLEAN ELSE {FALSE} :
       \E item \in {req.items[req.done + 1]} :
         \E out \in {IF fmOk
                       THEN propagate(req.event, lockedFiles, foldersWithLockedContent,
                                      item, storeOk)
                       ELSE Outcome(lockedFiles, foldersWithLockedContent, "throw", <<>>)} :
           /\ WithinBounds(out.lockedFiles)
           /\ lockedFiles' = out.lockedFiles
           /\ foldersWithLockedContent' = out.foldersWithLockedContent
           /\ req' = [req EXCEPT
                        !.fm = Append(@, [method |-> fmMethod(req.event),
                                          source |-> item[1], dest |-> item[2],
                                          failed |-> ~fmOk \/ rejects]),
                        !.stores = @ \o out.stores,
                        !.done = IF out.ret = "throw" THEN @ ELSE @ + 1,
                        !.thrown = IF ~fmOk THEN "fileManager"
                                   ELSE IF out.ret = "throw" THEN "store"
                                   ELSE "none",
                        !.listed = IF fmOk
                                     THEN listedItems(lockedFiles, req.data.target,
                                                      overview)
                                     ELSE <<>>,
                        !.resp = IF out.ret = "throw" THEN "error"
                                 ELSE IF req.done + 1 = Len(req.items) THEN "ok"
                                 ELSE "none"]
           /\ UNCHANGED <<call, procs, counters, instanceStatus>>

\* The handler of file/lock or file/unlock calls addLock or removeLock and
\* answers; a throwing store ends it in its catch block.
HandleLock ==
  /\ req.resp = "none"
  /\ req.event \in {"file/lock", "file/unlock"}
  /\ \E storeOk \in BOOLEAN :
       \E out \in {IF req.event = "file/lock"
                     THEN addLock(lockedFiles, foldersWithLockedContent,
                                  req.data.target.path, storeOk)
                     ELSE removeLock(lockedFiles, foldersWithLockedContent,
                                     req.data.target.path, storeOk)} :
         /\ WithinBounds(out.lockedFiles)
         /\ lockedFiles' = out.lockedFiles
         /\ foldersWithLockedContent' = out.foldersWithLockedContent
         /\ req' = [req EXCEPT
                      !.stores = out.stores,
                      !.done = IF out.ret = "throw" THEN 0 ELSE 1,
                      !.thrown = IF out.ret = "throw" THEN "store" ELSE "none",
                      !.resp = IF out.ret = "throw" THEN "error" ELSE "ok"]
         /\ UNCHANGED <<call, procs, counters, instanceStatus>>

\* the client has read the response and goes on
Deliver ==
  /\ req.resp \in {"ok", "error"}
  /\ req' = NoReq
  /\ UNCHANGED <<lockedFiles, foldersWithLockedContent, call, procs, counters, instanceStatus>>

RouterNext ==
  \/ DispatchForward
  \/ DispatchTarget
  \/ DispatchPairs
  \/ DispatchPaths
  \/ DispatchStatus
  \/ DispatchRefused
  \/ HandleItem
  \/ HandleLock
  \/ Deliver

\* any sequence of requests to the file router, routed one at a time
RouterSpec == Init /\ [][RouterNext]_vars

\* ------------------------------------------------- the middleware by itself
\* the events given to the middleware: those of the file router, and one of
\* another router
Events == FileEvents \cup {"instance/open"}

\* data.target and data.targets as any caller may send them
AnyTarget ==
  {Null, Str(<<>>), Str(<<"a">>), Str(<<"a", "/", "a">>), Str(NotAString)}

AnyItems == {<<<<"a">>, <<>>>>, <<<<"a", "/", "a">>, <<"a">>>>, <<NotAString, <<>>>>}

AnyTargets ==
  {NoTargets, StringOf(<<"a">>)} \cup {ArrayOf(a) : a \in ArraysUpTo(AnyItems, MaxBatch)}

\* an administrator locks a folder or a file in it
LockOne ==
  /\ Idle
  /\ NoRequest
  /\ \E targetPath \in {<<"a">>, <<"a", "/", "a">>} :
       Returns("addLock", targetPath, <<>>,
               addLock(lockedFiles, foldersWithLockedContent, targetPath, TRUE))

\* fileLockMiddleware(event, ctx, data, next) is invoked: req holds the event,
\* the payload, what the middleware did and the arrays it found
Invoke(event, data) ==
  /\ req' = [NoReq EXCEPT
               !.event = event,
               !.data = data,
               !.lock = fileLockMiddleware(lockedFiles, foldersWithLockedContent,
                                           event, data),
               !.pre = lockedFiles,
               !.preFolders = foldersWithLockedContent]
  /\ UNCHANGED <<lockedFiles, foldersWithLockedContent, call, procs, counters, instanceStatus>>

\* with a payload whose data.target matters, or none at all
InvokeWithTarget ==
  /\ Idle
  /\ NoRequest
  /\ \E event \in Events \ {"file/copy", "file/move", "file/delete", "file/compress"},
        instanceUuid \in {"inst", "ghost", Undefined},
        isAdmin \in AdminFlags, target \in AnyTarget :
       Invoke(event, [Data(isAdmin, target, NoTargets) EXCEPT
                        !.instanceUuid = instanceUuid])

\* with a payload whose data.targets matters
InvokeWithTargets ==
  /\ Idle
  /\ NoRequest
  /\ \E event \in {"file/copy", "file/move", "file/delete", "file/compress"},
        instanceUuid \in {"inst", "ghost", Undefined},
        isAdmin \in AdminFlags, targets \in AnyTargets :
       Invoke(event, [Data(isAdmin, Null, targets) EXCEPT
                        !.instanceUuid = instanceUuid])

\* the outcome has been seen
Settle ==
  /\ ~NoRequest
  /\ req' = NoReq
  /\ UNCHANGED <<lockedFiles, foldersWithLockedContent, call, procs, counters, instanceStatus>>

MiddlewareNext ==
  \/ LockOne
  \/ Return
  \/ InvokeWithTarget
  \/ InvokeWithTargets
  \/ Settle

\* the middleware invoked with any event and payload, on any registry
MiddlewareSpec == Init /\ [][MiddlewareNext]_vars

\* ------------------------------------------------------ overlapping requests
\* Handlers of one instance run on one event loop.  A handler in flight is
\* in a slot of procs, with its event, its admin flag, its items, how many
\* it has done, and where it is:
\*   "await"   suspended at await fileManager.move(...) of its next item
\*   "mutate"  about to run the registry operation of its next item
\*   "rebuild" inside the operation: the registry is written in memory, the
\*             ancestor index is not yet rebuilt
\*   "store"   inside the operation: the index is rebuilt, store not called

\* the paths of overlapping requests: a folder and a file in it
ConcurrentPaths == {<<"a">>, <<"a", "/", "a">>}

\* a move names a source and another path as its destination
ConcurrentPairs ==
  {<<s, d>> : s \in ConcurrentPaths, d \in ConcurrentPaths} \ {<<s, s>> : s \in ConcurrentPaths}

\* the mutation: the operation awaits between writing the registry and
\* rebuilding the index
synchronousUntilRegistryWrite(pc) == pc = "mutate"

\* the places from which a handler goes on without yielding: the registry
\* operations are synchronous functions, with no await in them
synchronous(pc) == pc \in {"mutate", "rebuild", "store"}

\* no handler is running: a new event can be routed, an await can resolve
EventLoopFree == \A p \in Slots : ~synchronous(procs[p].pc)

\* the registry operation of the handler of an event, for one item
mutation(event, lf, fw, item, storeOk) ==
  CASE event = "file/lock"   -> addLock(lf, fw, item[1], storeOk)
    [] event = "file/unlock" -> removeLock(lf, fw, item[1], storeOk)
    [] OTHER                 -> propagate(event, lf, fw, item, storeOk)

\* where the handler is after the operation of an item returned: answered
\* after the last one, at the next await (file/move) or operation otherwise
afterItem(proc) ==
  IF proc.done + 1 = Len(proc.items) THEN NoProc
  ELSE [proc EXCEPT !.done = @ + 1,
                    !.pc = IF proc.event = "file/move" THEN "await" ELSE "mutate"]

\* An event is routed while the event loop is free: the middlewares run and
\* the handler runs up to its first await or registry operation.  A request
\* answered at once (refused, or with nothing to do) leaves no handler.
Start(p, event, data) ==
  /\ procs[p].pc = "none"
  /\ \E r \in {route(lockedFiles, foldersWithLockedContent, event, data, instanceStatus)} :
       /\ r.handled
       /\ r.resp = "none"
       /\ procs' = [procs EXCEPT ![p] =
                      [event |-> event, isAdmin |-> data.isAdmin, items |-> r.items,
                       done |-> 0,
                       pc |-> IF event = "file/move" THEN "await" ELSE "mutate"]]
  /\ UNCHANGED <<lockedFiles, foldersWithLockedContent, call, req, counters, instanceStatus>>

StartMove ==
  /\ EventLoopFree
  /\ Idle
  /\ \E p \in Slots, isAdmin \in {"true", "false"},
        a \in ArraysUpTo(ConcurrentPairs, MaxBatch) :
       Start(p, "file/move", Data(isAdmin, Null, ArrayOf(a)))

StartDelete ==
  /\ EventLoopFree
  /\ Idle
  /\ \E p \in Slots, isAdmin \in {"true", "false"},
        a \in ArraysUpTo({<<t, <<>>>> : t \in ConcurrentPaths}, MaxBatch) :
       Start(p, "file/delete", Data(isAdmin, Null, ArrayOf(a)))

StartLock ==
  /\ EventLoopFree
  /\ Idle
  /\ \E p \in Slots, event \in {"file/lock", "file/unlock"}, t \in ConcurrentPaths :
       Start(p, event, Data("true", Str(t), NoTargets))

\* the awaited fileManager.move settles: the handler goes on to
\* moveLockForPath, or to its catch block
Resume ==
  /\ EventLoopFree
  /\ Idle
  /\ \E p \in Slots :
    /\ procs[p].pc = "await"
    /\ \E fmOk \in BOOLEAN :
         procs' = [procs EXCEPT ![p] = IF fmOk THEN [@ EXCEPT !.pc = "mutate"]
                                       ELSE NoProc]
    /\ UNCHANGED <<lockedFiles, foldersWithLockedContent, call, req, counters, instanceStatus>>

\* the registry operation reads the registry and writes it in memory, or
\* returns at once when it has nothing to change
Mutate ==
  \E p \in Slots :
    /\ procs[p].pc = "mutate"
    /\ \E out \in {mutation(procs[p].event, lockedFiles, foldersWithLockedContent,
                            procs[p].items[procs[p].done + 1], TRUE)} :
         IF out.stores = <<>>
           THEN /\ procs' = [procs EXCEPT ![p] = afterItem(@)]
                /\ UNCHANGED lockedFiles
           ELSE /\ WithinBounds(out.lockedFiles)
                /\ lockedFiles' = out.lockedFiles
                /\ procs' = [procs EXCEPT ![p].pc = "rebuild"]
    /\ UNCHANGED <<foldersWithLockedContent, call, req, counters, instanceStatus>>

\* updateFoldersWithLockedContent(instance)
Rebuild ==
  \E p \in Slots :
    /\ procs[p].pc = "rebuild"
    /\ foldersWithLockedContent' = updateFoldersWithLockedContent(lockedFiles)
    /\ procs' = [procs EXCEPT ![p].pc = "store"]
    /\ UNCHANGED <<lockedFiles, call, req, counters, instanceStatus>>

\* StorageSubsystem.store(...) returns and the operation with it, or throws
\* into the handler's catch block
Store ==
  \E p \in Slots :
    /\ procs[p].pc = "store"
    /\ \E storeOk \in BOOLEAN :
         procs' = [procs EXCEPT ![p] = IF storeOk THEN afterItem(@) ELSE NoProc]
    /\ UNCHANGED <<lockedFiles, foldersWithLockedContent, call, req, counters, instanceStatus>>

\* a query of the lock state of a path is answered while the event loop is
\* free; its caller reads the answer before any other event is routed
Query ==
  /\ EventLoopFree
  /\ Idle
  /\ \E t \in ConcurrentPaths :
       Answers("isPathOrContentsLocked", t,
               truthy(isPathOrContentsLocked(lockedFiles, foldersWithLockedContent, t)))

\* the instance changes status between two turns of the event loop: it is
\* started, stopped or busied while handlers may be waiting
ChangeStatus ==
  /\ EventLoopFree
  /\ Idle
  /\ \E s \in Statuses \ {instanceStatus} : instanceStatus' = s
  /\ UNCHANGED <<lockedFiles, foldersWithLockedContent, call, req, procs, counters>>

ConcurrentNext ==
  \/ ChangeStatus
  \/ StartMove
  \/ StartDelete
  \/ StartLock
  \/ Resume
  \/ Mutate
  \/ Rebuild
  \/ Store
  \/ Query
  \/ Return

\* any interleaving of the handlers of one instance at their awaits
ConcurrentSpec == Init /\ [][ConcurrentNext]_vars

\* ------------------------------------------------------ file task statistics
\* the file/compress handler and its counters; the handler yields once, at the
\* await of fileManager.zip or fileManager.unzip

\* the mutation: the limit is reached one task later
limitReachedLate(count, limit) == count > limit

\* instance.info.fileLock >= maxFileTask
limitReached(count, limit) == count >= limit

\* fileTaskStart(): both counters go up
fileTaskStart(instanceUuid) ==
  /\ fileLock' = [fileLock EXCEPT ![instanceUuid] = @ + 1]
  /\ fileTaskCount' = fileTaskCount + 1

\* fileTaskEnd(): both counters go down
fileTaskEnd(instanceUuid) ==
  /\ fileLock' = [fileLock EXCEPT ![instanceUuid] = @ - 1]
  /\ fileTaskCount' = fileTaskCount - 1

\* the handler answers from its outer catch block before any task started
refuse(t, instanceUuid, type, seen) ==
  /\ tasks' = [tasks EXCEPT ![t] =
                 [pc |-> "answered", instanceUuid |-> instanceUuid, type |-> type,
                  seen |-> seen, started |-> 0, ended |-> 0, fm |-> "none",
                  resp |-> "error"]]
  /\ UNCHANGED <<fileLock, fileTaskCount>>

\* routerApp.on("file/compress") up to its await: getFileManager may throw,
\* the instance may be unknown, the limit may be reached; otherwise the task
\* starts and zip or unzip is called, which throws at once or returns a
\* promise the handler awaits
Compress(t, instanceUuid, type, managerOk, called) ==
  /\ tasks[t].pc = "free"
  /\ IF ~managerOk \/ instanceUuid \notin Instances
       THEN refuse(t, instanceUuid, type, -1)
       ELSE IF limitReached(fileLock[instanceUuid], maxFileTask)
         THEN refuse(t, instanceUuid, type, fileLock[instanceUuid])
         ELSE LET method == IF type = 1 THEN "zip" ELSE "unzip"
              IN  IF called = "throws"
                    THEN /\ tasks' = [tasks EXCEPT ![t] =
                                       [pc |-> "answered", instanceUuid |-> instanceUuid,
                                        type |-> type, seen |-> fileLock[instanceUuid],
                                        started |-> 1, ended |-> 1, fm |-> method,
                                        resp |-> "error"]]
                         /\ UNCHANGED <<fileLock, fileTaskCount>>
                    ELSE /\ tasks' = [tasks EXCEPT ![t] =
                                       [pc |-> "awaiting", instanceUuid |-> instanceUuid,
                                        type |-> type, seen |-> fileLock[instanceUuid],
                                        started |-> 1, ended |-> 0, fm |-> method,
                                        resp |-> "none"]]
                         /\ fileTaskStart(instanceUuid)
  /\ UNCHANGED <<lockedFiles, foldersWithLockedContent, call, req, procs, maxFileTask, instanceStatus>>

\* a file/compress request arrives
Arrive ==
  \E t \in TaskSlots, instanceUuid \in Instances \cup {"ghost"}, type \in {1, 2},
     managerOk \in BOOLEAN, called \in {"pending", "throws"} :
    Compress(t, instanceUuid, type, managerOk, called)

\* the awaited promise settles: protocol.response, or the rethrow into the
\* outer catch block; fileTaskEnd runs in the finally block either way
Finish ==
  \E t \in TaskSlots, fulfilled \in BOOLEAN :
    /\ tasks[t].pc = "awaiting"
    /\ fileTaskEnd(tasks[t].instanceUuid)
    /\ tasks' = [tasks EXCEPT ![t].pc = "answered",
                              ![t].ended = @ + 1,
                              ![t].resp = IF fulfilled THEN "response" ELSE "error"]
    /\ UNCHANGED <<lockedFiles, foldersWithLockedContent, call, req, procs, maxFileTask, instanceStatus>>

\* the client has read the answer
Collect ==
  \E t \in TaskSlots :
    /\ tasks[t].pc = "answered"
    /\ tasks' = [tasks EXCEPT ![t] = NoTask]
    /\ UNCHANGED <<lockedFiles, foldersWithLockedContent, call, req, procs,
                   fileLock, fileTaskCount, maxFileTask, instanceStatus>>

\* the daemon starts with a configured limit
CompressInit ==
  /\ lockedFiles = <<>>
  /\ foldersWithLockedContent = <<>>
  /\ call = NoCall
  /\ req = NoReq
  /\ procs = [p \in Slots |-> NoProc]
  /\ fileLock = [i \in Instances |-> 0]
  /\ fileTaskCount = 0
  /\ maxFileTask \in 0..MaxFileTask
  /\ tasks = [t \in TaskSlots |-> NoTask]
  /\ instanceStatus = "RUNNING"

CompressNext ==
  \/ Arrive
  \/ Finish
  \/ Collect

\* any interleaving of file/compress requests at their awaits
CompressSpec == CompressInit /\ [][CompressNext]_vars

\* --------------------------------------------------------------- properties
\* the vocabulary of the registry's laws, over sets of paths

\* E + "/" is a prefix of P
Under(E, P) ==
  /\ Len(P) > Len(E)
  /\ SubSeq(P, 1, Len(E)) = E
  /\ P[Len(E) + 1] = "/"

\* P is effectively locked by the entries R: it is one, or lies under one
EffectivelyLocked(R, P) == \E E \in R : P = E \/ Under(E, P)

\* some entry of R lies strictly under P
HasLockedDescendant(R, P) == \E E \in R : Under(P, E)

\* the proper ancestors of E: what precedes each of its separators
ProperAncestors(E) == {SubSeq(E, 1, k - 1) : k \in {j \in 1..Len(E) : E[j] = "/"}}

\* E is a raw prefix of P that does not end at a separator of P
RawPrefixOnly(E, P) ==
  /\ Len(E) > 0
  /\ Len(P) > Len(E)
  /\ SubSeq(P, 1, Len(E)) = E
  /\ P[Len(E) + 1] # "/"

\* C3: after any sequence of calls the ancestor index is, as a set, exactly
\* the set of the proper ancestors of the registry's entries (empty when the
\* registry is empty).
C3_AncestorIndexIsClosure ==
  Elems(foldersWithLockedContent) =
    UNION {ProperAncestors(E) : E \in Elems(lockedFiles)}

\* a move has re-rooted a nested entry and the index lists the new ancestors
C3_Witness ==
  /\ call.op = "moveLockForPath"
  /\ call.ret = "true"
  /\ Elems(call.pre) # Elems(lockedFiles)
  /\ Elems(call.preFolders) # Elems(foldersWithLockedContent)
  /\ foldersWithLockedContent # <<>>

\* C4: every registry entry equals its own normalization and no entry occurs
\* twice, whatever the arguments of the calls, also when the destination of a
\* move or of a copy is already an entry.
C4_EntriesCanonicalAndDistinct ==
  \A i \in 1..Len(lockedFiles) :
    /\ normalizePath(lockedFiles[i]) = lockedFiles[i]
    /\ \A j \in 1..Len(lockedFiles) : lockedFiles[i] = lockedFiles[j] => i = j

\* a directly locked source has been moved onto a destination that was
\* already an entry, the arguments not being in canonical form
C4_Witness ==
  /\ call.op = "moveLockForPath"
  /\ call.ret = "true"
  /\ normalizePath(call.source) # call.source
  /\ normalizePath(call.source) # normalizePath(call.dest)
  /\ normalizePath(call.source) \in Elems(call.pre)
  /\ normalizePath(call.dest) \in Elems(call.pre)

\* C5: isPathLocked(P) is true exactly when normalize(P) is a registry entry
\* or E + "/" is a prefix of normalize(P) for some entry E; an entry that is
\* only a raw prefix of P, not ending at a separator, does not lock P.
C5_IsPathLockedSeparatorBounded ==
  call.op = "isPathLocked" =>
    (call.ret = "true"
       <=> EffectivelyLocked(Elems(lockedFiles), normalizePath(call.source)))

\* isPathLocked answered false for a path of which an entry is a raw prefix
C5_Witness ==
  /\ call.op = "isPathLocked"
  /\ call.ret = "false"
  /\ \E E \in Elems(lockedFiles) : RawPrefixOnly(E, normalizePath(call.source))

\* the relabelling of a move of S to D: S goes to D, S + "/" + r goes to
\* D + "/" + r, every other entry stays
Relabel(S, D, E) ==
  IF E = S THEN D
  ELSE IF Under(S, E) THEN D \o SubSeq(E, Len(S) + 1, Len(E))
  ELSE E

\* C6: after onMove(S, D) the registry is, as a set, the image of the old
\* registry under the relabelling of S to D; so D is an entry afterwards if
\* S was directly locked, S is not (for S other than D), and no entry under
\* S + "/" remains.
C6_MoveIsRelabelling ==
  call.op = "moveLockForPath" =>
    LET S == normalizePath(call.source)
        D == normalizePath(call.dest)
    IN  Elems(lockedFiles) = {Relabel(S, D, E) : E \in Elems(call.pre)}

\* the entries onDelete(P) removes: P itself and those under P + "/"
Removed(R, P) == {E \in R : E = P \/ Under(P, E)}

\* C7: removeLockForPath(P) removes exactly the entry normalize(P) and the
\* entries with prefix normalize(P) + "/", leaves the others (a sibling "ab"
\* of "a") in place and in order, and returns true iff it removed an entry.
C7_DeleteRemovesSubtreeOnly ==
  call.op = "removeLockForPath" =>
    LET P == normalizePath(call.source)
    IN  /\ lockedFiles = SelectSeq(call.pre, LAMBDA E : E \notin Removed(Elems(call.pre), P))
        /\ call.ret = "true"  => Removed(Elems(call.pre), P) # {}
        /\ call.ret = "false" => Removed(Elems(call.pre), P) = {}

\* a delete removed an entry and left in place an entry of which the deleted
\* path is only a raw prefix
C7_Witness ==
  /\ call.op = "removeLockForPath"
  /\ call.ret = "true"
  /\ \E E \in Elems(lockedFiles) : RawPrefixOnly(normalizePath(call.source), E)

\* C8: copyLockForPath(S, D) adds D, once, when S is a registry entry, and
\* keeps S; it leaves the registry as it is when S is not an entry, even
\* with a locked ancestor or locked descendants; no entry D + "/" + r comes
\* from a nested entry S + "/" + r.
C8_CopyAddsDestinationOnly ==
  call.op = "copyLockForPath" =>
    LET S == normalizePath(call.source)
        D == normalizePath(call.dest)
    IN  IF S \in Elems(call.pre)
          THEN /\ lockedFiles = IF D \in Elems(call.pre) THEN call.pre
                                ELSE Append(call.pre, D)
               /\ call.ret \in {"true", "throw"}
          ELSE /\ lockedFiles = call.pre
               /\ call.ret = "false"

\* a copy of a path that is not an entry, but lies under one, changed nothing
C8_Witness ==
  /\ call.op = "copyLockForPath"
  /\ call.ret = "false"
  /\ EffectivelyLocked(Elems(call.pre), normalizePath(call.source))
  /\ ~EffectivelyLocked(Elems(call.pre), normalizePath(call.dest))

\* C10 as stated: addLock(P) followed by removeLock(P) leaves the registry
\* and the ancestor index equal, as sets, to their contents before the
\* addLock, for every registry and every P.
C10_RoundTripAnyPath ==
  (call.op = "removeLock" /\ call.chained) =>
    /\ Elems(lockedFiles) = Elems(call.pre0)
    /\ Elems(foldersWithLockedContent) = Elems(call.preFolders0)

\* C10: addLock(P) followed by removeLock(P) leaves the registry and the
\* ancestor index equal, as sets, to their contents before the addLock, for
\* every registry and every P whose normalization was not an entry before.
C10_RoundTripOfNewLock ==
  (/\ call.op = "removeLock"
   /\ call.chained
   /\ normalizePath(call.source) \notin Elems(call.pre0)) =>
    /\ Elems(lockedFiles) = Elems(call.pre0)
    /\ Elems(foldersWithLockedContent) = Elems(call.preFolders0)

\* a new lock on a folder with a locked descendant was added and removed
C10_Witness ==
  /\ call.op = "removeLock"
  /\ call.chained
  /\ call.ret = "true"
  /\ normalizePath(call.source) \notin Elems(call.pre0)
  /\ HasLockedDescendant(Elems(call.pre0), normalizePath(call.source))

\* the operations the enforcement middleware governs
Governed ==
  {"file/list", "file/edit", "file/chmod", "file/copy", "file/move",
   "file/delete", "file/compress"}

\* the file operations other than lock and unlock
Operations == Governed \cup {"file/touch", "file/mkdir"}

\* the candidate c is effectively locked by the entries R or, for the
\* operations that check contents (all but file/list), has a locked strict
\* descendant
CandidateLocked(R, event, c) ==
  \/ EffectivelyLocked(R, normalizePath(c))
  \/ event # "file/list" /\ HasLockedDescendant(R, normalizePath(c))

\* C1: a governed operation requested with the admin flag not true, one of
\* whose extracted candidates is effectively locked (or, for the operations
\* that check contents, has a locked strict descendant), is rejected whole
\* by the middleware: next is not invoked, the file manager is invoked for
\* no target, the registry is unchanged.
C1_LockedCandidateRejectsRequest ==
  (/\ req.event \in Governed
   /\ req.auth = "next"
   /\ req.data.isAdmin # "true"
   /\ \E c \in Elems(getTargets(req.event, req.data)) :
        CandidateLocked(Elems(req.pre), req.event, c)) =>
    /\ req.lock = "error"
    /\ ~req.handled
    /\ req.fm = <<>>
    /\ lockedFiles = req.pre
    /\ foldersWithLockedContent = req.preFolders

\* C2: after a request of any file operation other than lock and unlock,
\* made with the admin flag not true, every path that was effectively locked
\* before the request is still effectively locked when it has completed.
C2_NonAdminCannotUnlock ==
  (/\ req.event \in Operations
   /\ req.data.isAdmin # "true"
   /\ req.resp \in {"ok", "error"}) =>
    \A E \in Elems(req.pre) : EffectivelyLocked(Elems(lockedFiles), E)

\* C9: after a successful file/touch or file/mkdir at P the registry holds
\* no entry equal to normalize(P) and none nested under it, and every other
\* entry is as it was.
C9_CreateClearsStaleLocks ==
  (/\ req.event \in {"file/touch", "file/mkdir"}
   /\ req.resp = "ok") =>
    LET P == normalizePath(req.data.target.path)
    IN  lockedFiles =
          SelectSeq(req.pre, LAMBDA E : E \notin Removed(Elems(req.pre), P))

\* a folder that was locked, with a locked entry under it, has been created
\* again, and both locks are gone
C9_Witness ==
  /\ req.event \in {"file/touch", "file/mkdir"}
  /\ req.resp = "ok"
  /\ LET P == normalizePath(req.data.target.path)
     IN  /\ P \in Elems(req.pre)
         /\ HasLockedDescendant(Elems(req.pre), P)
  /\ lockedFiles = <<>>

\* C11: with the admin flag exactly true the middleware forwards every
\* governed operation whatever the lock state of its targets; with the flag
\* absent or anything else it does what it does for a non-admin request.
C11_OnlyTrueIsAdmin ==
  (req.event \in Governed /\ req.auth = "next") =>
    IF req.data.isAdmin = "true"
      THEN req.lock = "next" /\ req.handled
      ELSE req.lock = fileLockMiddleware(req.pre, req.preFolders, req.event,
                                         [req.data EXCEPT !.isAdmin = "false"])

\* an administrator's request naming a locked path has been forwarded and
\* answered
C11_Witness ==
  /\ req.event \in Governed
  /\ req.data.isAdmin = "true"
  /\ \E c \in Elems(getTargets(req.event, req.data)) :
       c # <<>> /\ CandidateLocked(Elems(req.pre), req.event, c)
  /\ req.lock = "next"
  /\ req.resp = "ok"

\* the requests from which the extractor of the operation takes no candidate
EmptyExtraction(event, data) ==
  \/ /\ event = "file/list"
     /\ data.target.isNull \/ data.target.path \in {<<>>, <<"/">>, <<".">>}
  \/ /\ event \in {"file/edit", "file/chmod"}
     /\ data.target.isNull \/ data.target.path = <<>>
  \/ /\ event \in {"file/copy", "file/move", "file/delete", "file/compress"}
     /\ data.targets.kind # "array" \/ data.targets.items = <<>>

\* C12: when the extractor of a governed operation yields no candidate (a
\* list of "/", "." or the empty target, a missing target, targets missing
\* or not a list) the middleware forwards the non-admin request, whatever
\* the registry holds, and reports no error.
C12_EmptyExtractionFailsOpen ==
  (/\ req.event \in Governed
   /\ req.auth = "next"
   /\ req.data.isAdmin # "true"
   /\ EmptyExtraction(req.event, req.data)) =>
    req.lock = "next" /\ req.handled

\* a non-admin list of "/" has been forwarded while the root was locked
C12_Witness ==
  /\ req.event = "file/list"
  /\ req.data.isAdmin # "true"
  /\ req.data.target = Str(<<"/">>)
  /\ <<>> \in Elems(req.pre)
  /\ req.lock = "next"
  /\ req.resp = "ok"

\* the input t offends: it is effectively locked or, with checkContents, has
\* a locked strict descendant
Offends(R, checkContents, t) ==
  \/ EffectivelyLocked(R, normalizePath(t))
  \/ checkContents /\ HasLockedDescendant(R, normalizePath(t))

\* the entry of lockedPaths reports the input t: it is t, or the path of a
\* lock under t
Reports(entry, t) == entry = t \/ Under(normalizePath(t), normalizePath(entry))

\* C13: checkLockStatus returns lockedPaths with exactly one entry for each
\* offending input, in input order, none for the others, and hasLocked is
\* true iff lockedPaths is not empty.
C13_OneEntryPerOffendingInput ==
  call.op = "checkLockStatus" =>
    LET offending == SelectSeq(call.targets,
                               LAMBDA t : Offends(Elems(lockedFiles), call.checkContents, t))
    IN  /\ Len(call.lockedPaths) = Len(offending)
        /\ \A i \in 1..Len(call.lockedPaths) : Reports(call.lockedPaths[i], offending[i])
        /\ call.ret = "true" <=> call.lockedPaths # <<>>

\* C14: every element of lockedPaths is one of the input targets, never a
\* registry entry that differs from the input, with checkContents false and
\* with checkContents true.
C14_LockedPathsAreInputs ==
  call.op = "checkLockStatus" =>
    \A i \in 1..Len(call.lockedPaths) : call.lockedPaths[i] \in Elems(call.targets)

\* the operations whose handler calls the registry
Propagating ==
  {"file/touch", "file/mkdir", "file/copy", "file/move", "file/delete",
   "file/lock", "file/unlock"}

\* a step that changes the registry hands store, once, the snapshot that
\* holds the new registry and the index rebuilt from it
StoresRebuiltSnapshot ==
  lockedFiles' # lockedFiles =>
    /\ Elems(foldersWithLockedContent') =
         UNION {ProperAncestors(E) : E \in Elems(lockedFiles')}
    /\ req'.stores =
         Append(req.stores, [lockedFiles |-> lockedFiles',
                             foldersWithLockedContent |-> foldersWithLockedContent'])

\* the success response comes after the registry call of every target
RespondsAfterLastCall ==
  (req.event \in Propagating /\ req.resp = "ok") => req.done = Len(req.items)

\* C15: every operation that changes the registry updates it in memory,
\* rebuilds the ancestor index, calls store once with the snapshot holding
\* both, and then returns; the handler of touch, mkdir, copy, move, delete,
\* lock and unlock answers success only after the registry call of every
\* target has returned.
C15_RebuildStoreReturnRespond ==
  /\ [][StoresRebuiltSnapshot]_vars
  /\ []RespondsAfterLastCall

\* a move of two targets has been answered after two stores
C15_Witness ==
  /\ req.event = "file/move"
  /\ req.resp = "ok"
  /\ req.done = 2
  /\ Len(req.stores) = 2

\* the snapshot of the last call of store
LastStored == req.stores[Len(req.stores)]

\* C16: if store throws during an operation that changes the registry, the
\* request is answered with an error, never with success, and the registry
\* and the ancestor index in memory keep the mutation that was handed to
\* store (no rollback).
C16_StoreThrowIsErrorWithoutRollback ==
  req.thrown = "store" =>
    /\ req.resp = "error"
    /\ lockedFiles = LastStored.lockedFiles
    /\ foldersWithLockedContent = LastStored.foldersWithLockedContent

\* store threw while a path under a folder was being locked: the entry and
\* its ancestor stay in memory
C16_Witness ==
  /\ req.event = "file/lock"
  /\ req.thrown = "store"
  /\ lockedFiles # req.pre
  /\ foldersWithLockedContent # req.preFolders

\* a handler here is between the registry write of an operation and the
\* return of its store
MidMutation(pc) == pc \in {"rebuild", "store"}

NobodyMidMutation == \A q \in Slots : ~MidMutation(procs[q].pc)

\* no handler takes a step while another one is inside an operation
NoStepInsideAnotherMutation ==
  \A p \in Slots :
    procs'[p] # procs[p] => \A q \in Slots \ {p} : ~MidMutation(procs[q].pc)

\* no query is answered while a handler is inside an operation
NoQueryInsideMutation ==
  (call' # call /\ call'.op # "none") => NobodyMidMutation

\* C17: under any interleaving of the handlers of one instance at their
\* awaits, every registry operation runs from its read of the registry to
\* its store without yielding: no handler steps and no query is answered
\* while another handler is inside an operation, and outside the operations
\* the ancestor index is the one rebuilt from the registry.
C17_MutationsAreAtomic ==
  /\ [][NoStepInsideAnotherMutation]_vars
  /\ [][NoQueryInsideMutation]_vars
  /\ [](NobodyMidMutation => C3_AncestorIndexIsClosure)

\* a handler is inside an operation, the index stale, while a move waits at
\* its await
C17_Witness ==
  \E p \in Slots, q \in Slots :
    /\ procs[p].pc = "rebuild"
    /\ procs[q].pc = "await"
    /\ ~C3_AncestorIndexIsClosure

\* P lies strictly under an entry of the registry and is not an entry
InheritsOnly(lf, P) ==
  /\ \E E \in Elems(lf) : Under(normalizePath(E), normalizePath(P))
  /\ \A E \in Elems(lf) : normalizePath(E) # normalizePath(P)

\* C18: on every registry and for every path P, isPathDirectlyLocked(P)
\* implies isPathLocked(P); the converse fails for every path strictly under
\* a registry entry that is not itself an entry: isPathLocked answers true
\* and isPathDirectlyLocked false.
C18_DirectlyLockedImpliesLocked ==
  /\ (call.op = "isPathDirectlyLocked" /\ call.ret = "true")
       => isPathLocked(call.pre, call.source)
  /\ (call.op = "isPathLocked" /\ call.ret = "false")
       => ~isPathDirectlyLocked(call.pre, call.source)
  /\ (call.op = "isPathLocked" /\ InheritsOnly(call.pre, call.source))
       => (call.ret = "true" /\ ~isPathDirectlyLocked(call.pre, call.source))
  /\ (call.op = "isPathDirectlyLocked" /\ InheritsOnly(call.pre, call.source))
       => (call.ret = "false" /\ isPathLocked(call.pre, call.source))

\* isPathDirectlyLocked answered true for an entry of a registry on which the
\* converse fails: some path under that entry is locked and not an entry
C18_Witness ==
  /\ call.op = "isPathDirectlyLocked"
  /\ call.ret = "true"
  /\ isPathLocked(call.pre, call.source)
  /\ \E Q \in RawPaths :
       /\ Under(normalizePath(call.source), normalizePath(Q))
       /\ InheritsOnly(call.pre, Q)
       /\ isPathLocked(call.pre, Q)
       /\ ~isPathDirectlyLocked(call.pre, Q)

\* C19: after addLock(P) on any registry, whatever it returned,
\* isPathDirectlyLocked(P) is true; for every Q strictly under P
\* (normalize(P) + "/" is a prefix of normalize(Q)) isPathLocked(Q) is true,
\* and isPathDirectlyLocked(Q) is false unless Q is a registry entry; and
\* isPathDirectlyLocked answers for every path other than P (every Q whose
\* normal form is not that of P) what it answered before the call.
C19_AddLockLocksSubtreeDirectlyOnlyP ==
  call.op = "addLock" =>
    /\ isPathDirectlyLocked(lockedFiles, call.source)
    /\ \A Q \in RawPaths :
         Under(normalizePath(call.source), normalizePath(Q)) =>
           /\ isPathLocked(lockedFiles, Q)
           /\ normalizePath(Q) \notin Elems(lockedFiles)
                => ~isPathDirectlyLocked(lockedFiles, Q)
    /\ \A Q \in RawPaths :
         normalizePath(Q) # normalizePath(call.source) =>
           (isPathDirectlyLocked(lockedFiles, Q)
              <=> isPathDirectlyLocked(call.pre, Q))

\* addLock(P) added P to a registry holding an entry under P: that entry is
\* still directly locked, and another path under P is locked by inheritance
\* only, which it was not before the call
C19_Witness ==
  /\ call.op = "addLock"
  /\ call.ret = "true"
  /\ \E Q \in RawPaths :
       /\ Under(normalizePath(call.source), normalizePath(Q))
       /\ isPathDirectlyLocked(call.pre, Q)
       /\ isPathDirectlyLocked(lockedFiles, Q)
  /\ \E Q \in RawPaths :
       /\ Under(normalizePath(call.source), normalizePath(Q))
       /\ ~isPathLocked(call.pre, Q)
       /\ isPathLocked(lockedFiles, Q)
       /\ ~isPathDirectlyLocked(lockedFiles, Q)

\* the calls whose argument is any string, normalised on entry
Normalizing == {"addLock", "removeLock", "isPathLocked", "isPathDirectlyLocked"}

\* x with the direction of its slash at i reversed
OtherDirection(x, i) ==
  [x EXCEPT ![i] = IF @ = "/" THEN "\\" ELSE "/"]

\* x with the slash at i repeated
Repeated(x, i) == SubSeq(x, 1, i) \o <<x[i]>> \o SubSeq(x, i + 1, Len(x))

\* the spellings one step away from x: one slash in the other direction, one
\* slash repeated, one trailing slash more
Respellings(x) ==
  {OtherDirection(x, i) : i \in {j \in 1..Len(x) : x[j] \in {"/", "\\"}}}
    \cup {Repeated(x, i) : i \in {j \in 1..Len(x) : x[j] \in {"/", "\\"}}}
    \cup {x \o <<"/">>}

\* n is in canonical form: no backslash, no two consecutive slashes, no
\* trailing slash
Canonical(n) ==
  /\ \A i \in 1..Len(n) : n[i] # "\\"
  /\ \A i \in 1..(Len(n) - 1) : ~(n[i] = "/" /\ n[i + 1] = "/")
  /\ Len(n) > 0 => n[Len(n)] # "/"

\* C20: for every string x, normalizePath(normalizePath(x)) =
\* normalizePath(x); normalizePath(x) has no backslash, no two consecutive
\* slashes and no trailing slash; and a spelling that differs from x in the
\* direction of a slash, in a repeated slash or in one trailing slash
\* normalises to the same string.  The entry addLock pushes is that string.
C20_NormalizePathCanonical ==
  call.op \in Normalizing =>
    /\ normalizePath(normalizePath(call.source)) = normalizePath(call.source)
    /\ Canonical(normalizePath(call.source))
    /\ \A y \in Respellings(call.source) :
         normalizePath(y) = normalizePath(call.source)
    /\ (call.op = "addLock" /\ call.ret = "true")
         => lockedFiles[Len(lockedFiles)] = normalizePath(call.source)

\* addLock was given a name followed by a backslash and a slash, and pushed
\* the name alone
C20_Witness ==
  /\ call.op = "addLock"
  /\ call.ret = "true"
  /\ Len(call.source) = MaxLen
  /\ call.source[MaxLen - 1] = "\\"
  /\ call.source[MaxLen] = "/"
  /\ ~Canonical(call.source)
  /\ Len(lockedFiles[Len(lockedFiles)]) = MaxLen - 2
  /\ Canonical(lockedFiles[Len(lockedFiles)])

\* the sources and the destinations of the pairs of a request
Sources(data) == {data.targets.items[i][1] : i \in 1..Len(data.targets.items)}
Destinations(data) == {data.targets.items[i][2] : i \in 1..Len(data.targets.items)}

\* C21: a file/copy or file/move request made with the admin flag not true,
\* of which every source is neither effectively locked nor has a locked
\* strict descendant, is forwarded by the enforcement middleware, whatever
\* the lock state of its destinations.
C21_OnlySourcesAreChecked ==
  (/\ req.event \in {"file/copy", "file/move"}
   /\ req.auth = "next"
   /\ req.data.isAdmin # "true"
   /\ req.data.targets.kind = "array"
   /\ \A c \in Sources(req.data) : ~CandidateLocked(Elems(req.pre), req.event, c)) =>
    /\ req.lock = "next"
    /\ req.handled

\* a non-admin copy or move whose destination is a registry entry or lies
\* under one has been forwarded
C21_Witness ==
  /\ req.event \in {"file/copy", "file/move"}
  /\ req.data.isAdmin # "true"
  /\ req.data.targets.kind = "array"
  /\ \E d \in Destinations(req.data) :
       /\ normalizePath(d) \in Elems(req.pre)
  /\ \E d \in Destinations(req.data) :
       /\ \E E \in Elems(req.pre) : Under(E, normalizePath(d))
  /\ req.lock = "next"
  /\ req.handled

\* C22: in every state the registry operations reach, containsLockedPath(P)
\* answers what a scan of the whole registry answers: null exactly when no
\* entry starts with normalize(P) + "/", and otherwise a registry entry
\* strictly under P (the first one in registry order).
C22_FastPathAgreesWithScan ==
  call.op = "containsLockedPath" =>
    /\ call.ret = "null"
         <=> ~HasLockedDescendant(Elems(call.pre), normalizePath(call.source))
    /\ call.ret = "string" =>
         /\ call.lockedPaths[1] \in Elems(call.pre)
         /\ Under(normalizePath(call.source), call.lockedPaths[1])
         /\ Str(call.lockedPaths[1])
              = firstLockedInside(call.pre, normalizePath(call.source), 1)

\* containsLockedPath found an entry under a path that the index marks, on a
\* registry with another entry that the fast path lets it skip for other
\* paths
C22_Witness ==
  /\ call.op = "containsLockedPath"
  /\ call.ret = "string"
  /\ Len(call.preFolders) > 0
  /\ normalizePath(call.source) \in Elems(call.preFolders)
  /\ Len(call.pre) = MaxLocks

\* the directory a file/list request names is one the extractor passes on
\* to the check: not absent, not empty, not "/" and not "."
ListedDirectoryChecked(data) ==
  /\ truthy(data.target)
  /\ data.target.path \notin {<<"/">>, <<".">>}

\* C23 as stated: a file/list request made with the admin flag not true is
\* rejected when the directory it names is a registry entry or lies under
\* one, and forwarded otherwise, whatever entries lie inside the directory.
C23_ListChecksDirectoryItself ==
  (/\ req.event = "file/list"
   /\ req.auth = "next"
   /\ req.data.isAdmin # "true"
   /\ ~req.data.target.isNull) =>
    IF EffectivelyLocked(Elems(req.pre), normalizePath(req.data.target.path))
      THEN req.lock = "error" /\ ~req.handled
      ELSE req.lock = "next" /\ req.handled

\* C23, amended: the same, for a directory other than the root spellings
\* the extractor skips ("", "/" and ".")
C23_ListChecksNonRootDirectoryItself ==
  (/\ req.event = "file/list"
   /\ req.auth = "next"
   /\ req.data.isAdmin # "true"
   /\ ListedDirectoryChecked(req.data)) =>
    IF EffectivelyLocked(Elems(req.pre), normalizePath(req.data.target.path))
      THEN req.lock = "error" /\ ~req.handled
      ELSE req.lock = "next" /\ req.handled

\* a non-admin listing of an unlocked directory with a locked entry inside
\* it has been forwarded
C23_Witness ==
  /\ req.event = "file/list"
  /\ req.data.isAdmin # "true"
  /\ ListedDirectoryChecked(req.data)
  /\ ~EffectivelyLocked(Elems(req.pre), normalizePath(req.data.target.path))
  /\ HasLockedDescendant(Elems(req.pre), normalizePath(req.data.target.path))
  /\ req.lock = "next"
  /\ req.handled

\* C24: file/lock, file/unlock and the other file/ events without a
\* configuration entry (file/touch, file/mkdir, file/status) are forwarded by
\* the enforcement middleware whatever the admin flag and the lock state of
\* their target; the handlers of file/lock and file/unlock then apply
\* addLock and removeLock to the target without looking at the admin flag.
C24_LockAndUnlockAreNotGated ==
  (req.event \in FileEvents \ ConfiguredEvents /\ req.auth = "next") =>
    /\ req.lock = "next"
    /\ req.handled
    /\ (req.event = "file/lock" /\ req.resp = "ok") =>
         lockedFiles = addLock(req.pre, req.preFolders,
                               req.data.target.path, TRUE).lockedFiles
    /\ (req.event = "file/unlock" /\ req.resp = "ok") =>
         lockedFiles = removeLock(req.pre, req.preFolders,
                                  req.data.target.path, TRUE).lockedFiles

\* a file/unlock request with the admin flag false has removed an entry
C24_Witness ==
  /\ req.event = "file/unlock"
  /\ req.data.isAdmin = "false"
  /\ req.resp = "ok"
  /\ normalizePath(req.data.target.path) \in Elems(req.pre)
  /\ normalizePath(req.data.target.path) \notin Elems(lockedFiles)

\* C25 as stated: in the response of file/list each item's locked flag is
\* true exactly when normalize(target + "/" + name) is a registry entry, and
\* the listing leaves the registry and the index as they were.
C25_ListedFlagIsMembershipOfJoinedPath ==
  (req.event = "file/list" /\ req.resp = "ok" /\ ~req.data.target.isNull) =>
    /\ \A i \in 1..Len(req.listed) :
         req.listed[i].locked
           <=> normalizePath(req.data.target.path \o <<"/">> \o req.listed[i].name)
                 \in Elems(req.pre)
    /\ lockedFiles = req.pre
    /\ foldersWithLockedContent = req.preFolders

\* C25, amended: the same, the path of an item being normalize(target + "/"
\* + name) when the request names a directory and the normalised bare name
\* when its target is empty or absent.
C25_ListedFlagIsDirectMembership ==
  (req.event = "file/list" /\ req.resp = "ok") =>
    /\ \A i \in 1..Len(req.listed) :
         req.listed[i].locked
           <=> (IF truthy(req.data.target)
                  THEN normalizePath(req.data.target.path \o <<"/">> \o req.listed[i].name)
                  ELSE normalizePath(req.listed[i].name))
                 \in Elems(req.pre)
    /\ lockedFiles = req.pre
    /\ foldersWithLockedContent = req.preFolders

\* the listing of a locked folder shows one item that is a registry entry
\* as locked and another, locked by inheritance only, as not locked
C25_Witness ==
  /\ req.event = "file/list"
  /\ req.resp = "ok"
  /\ normalizePath(req.data.target.path) \in Elems(req.pre)
  /\ Len(req.listed) = 2
  /\ req.listed[1].locked
  /\ ~req.listed[2].locked
  /\ isPathLocked(req.pre, itemPath(req.data.target, req.listed[2].name))

\* C26: a file/copy, file/move or file/delete request made with the admin
\* flag not true that the enforcement middleware forwards leaves the
\* registry and the ancestor index as it found them, at every point of its
\* handling (requests are routed one at a time): each propagator call of
\* its batch is a no-op.
C26_ForwardedNonAdminBatchIsNoOp ==
  (/\ req.event \in {"file/copy", "file/move", "file/delete"}
   /\ req.data.isAdmin # "true"
   /\ req.lock = "next"
   /\ req.handled) =>
    /\ lockedFiles = req.pre
    /\ foldersWithLockedContent = req.preFolders
    /\ req.stores = <<>>

\* the handler of a file/move request without the admin flag runs the
\* registry operation of a pair, and the registry stays as it is
NonAdminMoveKeepsRegistry ==
  \A p \in Slots :
    (/\ procs[p].event = "file/move"
     /\ procs[p].isAdmin # "true"
     /\ procs[p].pc = "mutate"
     /\ procs'[p] # procs[p]) =>
      lockedFiles' = lockedFiles

\* C27: a file/move request made with the admin flag not true relocates and
\* removes no registry entry, also when file/lock requests of an
\* administrator are handled while its handler awaits the file manager: the
\* moveLockForPath call of each of its pairs leaves the registry unchanged,
\* even for a source locked since the middleware checked it.
C27_NonAdminMoveNeverRelabels == [][NonAdminMoveKeepsRegistry]_vars

\* the handler has just called the file manager for an item, and the
\* filesystem operation of that item fails
FailedItem ==
  /\ req'.event \in {"file/touch", "file/mkdir", "file/copy", "file/move", "file/delete"}
  /\ Len(req'.fm) = Len(req.fm) + 1
  /\ req'.fm[Len(req'.fm)].failed

\* C28: for file/touch, file/mkdir, file/copy, file/move and file/delete,
\* when the filesystem operation of a target fails, the handler removes,
\* adds and relabels no registry entry for that target: the registry and
\* the index are after the item what they were before it.
C28_NoLockUpdateForFailedItem ==
  [][FailedItem =>
       /\ lockedFiles' = lockedFiles
       /\ foldersWithLockedContent' = foldersWithLockedContent]_vars

\* the registry, the index and the snapshots stored after the lock updates
\* of the first n pairs, made in input order from lf and fw
RECURSIVE UpdatesOfPairs(_, _, _, _, _)
UpdatesOfPairs(event, lf, fw, pairs, n) ==
  IF n = 0
    THEN [lockedFiles |-> lf, foldersWithLockedContent |-> fw, stores |-> <<>>]
    ELSE LET before == UpdatesOfPairs(event, lf, fw, pairs, n - 1)
             out    == propagate(event, before.lockedFiles,
                                 before.foldersWithLockedContent, pairs[n], TRUE)
         IN  [lockedFiles |-> out.lockedFiles,
              foldersWithLockedContent |-> out.foldersWithLockedContent,
              stores |-> before.stores \o out.stores]

Exempt(event, data) ==
  \/ event \notin FileEvents
  \/ event \notin ConfiguredEvents
  \/ data.instanceUuid = Undefined
  \/ data.instanceUuid # "inst"

\* C30: for every event and payload fileLockMiddleware either invokes next,
\* once, or emits one lock-violation error, and never neither; for an event
\* that is not a file event or has no configuration entry, and for a payload
\* that names no instance or an unknown one, it invokes next.
C30_ExactlyOneOutcome ==
  req.event # "none" =>
    /\ req.lock \in {"next", "error"}
    /\ Exempt(req.event, req.data) => req.lock = "next"

\* neither path is the other, an ancestor of it or a descendant of it
Unrelated(S, D) == S # D /\ ~Under(S, D) /\ ~Under(D, S)

\* the second of two moves, the first from S to D and this one back
MovedBack == call.op = "moveLockForPath" /\ call.chained

\* C31: for S and D neither equal to, an ancestor of, nor a descendant of the
\* other, and a registry with no entry equal to D or nested under D,
\* onMove(S, D) followed by onMove(D, S) leaves the registry and the ancestor
\* index with the contents they had before the first move.
C31_MoveThereAndBackRestores ==
  LET S == normalizePath(call.dest)
      D == normalizePath(call.source)
  IN  (/\ MovedBack
       /\ Unrelated(S, D)
       /\ Removed(Elems(call.pre0), D) = {}) =>
        /\ Elems(lockedFiles) = Elems(call.pre0)
        /\ Elems(foldersWithLockedContent) = Elems(call.preFolders0)

\* a locked folder with a locked entry inside it was moved aside and back:
\* both entries were relabelled by the first move
C31_Witness ==
  LET S == normalizePath(call.dest)
      D == normalizePath(call.source)
  IN  /\ MovedBack
      /\ Unrelated(S, D)
      /\ Removed(Elems(call.pre0), D) = {}
      /\ S \in Elems(call.pre0)
      /\ \E E \in Elems(call.pre0) : Under(S, E)
      /\ D \in Elems(call.pre)
      /\ \E E \in Elems(call.pre) : Under(D, E)
      /\ Elems(call.pre) # Elems(call.pre0)
      /\ call.ret # "throw"

\* C32: addLock(P) returns true iff normalize(P) was not an entry and
\* removeLock(P) returns true iff it was (a call that does not return true
\* for the other reason, a throw out of store, does not return at all); a
\* return of false leaves the registry and the ancestor index as they were
\* and calls no store; removeLock keeps every entry nested under P.
C32_LockAndUnlockReportMembership ==
  call.op \in {"addLock", "removeLock"} =>
    LET P   == normalizePath(call.source)
        was == P \in Elems(call.pre)
    IN  /\ call.op = "addLock" => (call.ret = "false" <=> was)
        /\ call.op = "removeLock" => (call.ret = "false" <=> ~was)
        /\ call.ret \in {"true", "false", "throw"}
        /\ call.ret = "true" => Len(call.stores) = 1
        /\ call.ret = "false" =>
             /\ lockedFiles = call.pre
             /\ foldersWithLockedContent = call.preFolders
             /\ call.stores = <<>>
        /\ call.op = "removeLock" =>
             Elems(lockedFiles) = Elems(call.pre) \ {P}

\* an already locked folder with a locked entry inside it was locked again,
\* which changed nothing, and then unlocked, which kept the entry inside it
C32_Witness ==
  LET P == normalizePath(call.source)
  IN  /\ call.op = "removeLock"
      /\ call.chained
      /\ P \in Elems(call.pre0)
      /\ call.pre = call.pre0
      /\ call.preFolders = call.preFolders0
      /\ call.ret = "true"
      /\ P \notin Elems(lockedFiles)
      /\ \E E \in Elems(call.pre) : Under(P, E) /\ E \in Elems(lockedFiles)

\* the accepted file/compress requests of an instance that have not finished
InFlight(i) ==
  {t \in TaskSlots : tasks[t].pc = "awaiting" /\ tasks[t].instanceUuid = i}

\* the request found the counter of its instance at the limit
FoundLimit(t) == tasks[t].seen # -1 /\ tasks[t].seen >= maxFileTask

\* C33: under any interleaving of file/compress requests the counter of an
\* instance stays between zero and maxFileTask; it and the global counter
\* count the accepted requests not yet finished, each request having
\* incremented both once when accepted and decremented both once when it
\* finished, with success or with a throw; a request that finds the counter
\* at maxFileTask is refused with an error and counts nothing.
C33_FileTaskCounterWithinLimit ==
  /\ \A i \in Instances :
       /\ fileLock[i] >= 0
       /\ fileLock[i] <= maxFileTask
       /\ fileLock[i] = Cardinality(InFlight(i))
  /\ fileTaskCount = Cardinality(UNION {InFlight(i) : i \in Instances})
  /\ \A t \in TaskSlots :
       /\ tasks[t].pc = "awaiting" =>
            /\ tasks[t].started = 1
            /\ tasks[t].ended = 0
            /\ ~FoundLimit(t)
       /\ tasks[t].pc = "answered" =>
            /\ tasks[t].started = tasks[t].ended
            /\ tasks[t].started <= 1
            /\ tasks[t].resp \in {"response", "error"}
            /\ tasks[t].resp = "response" => tasks[t].started = 1
            /\ FoundLimit(t) => tasks[t].started = 0 /\ tasks[t].resp = "error"

\* an instance at its limit: one request of it is in flight, one was refused
\* for the limit, and one of another instance was accepted and ended in a throw
C33_Witness ==
  /\ maxFileTask = 1
  /\ fileLock["inst"] = 1
  /\ fileTaskCount = 1
  /\ \E t1, t2, t3 \in TaskSlots :
       /\ tasks[t1].pc = "awaiting" /\ tasks[t1].instanceUuid = "inst"
       /\ tasks[t2].pc = "answered" /\ tasks[t2].instanceUuid = "inst"
       /\ FoundLimit(t2) /\ tasks[t2].resp = "error" /\ tasks[t2].started = 0
       /\ tasks[t3].pc = "answered" /\ tasks[t3].instanceUuid = "other"
       /\ tasks[t3].started = 1 /\ tasks[t3].ended = 1
       /\ tasks[t3].resp = "error" /\ tasks[t3].seen = 0

\* a step taken while the instance is busy or starting starts no handler and
\* leaves the registry as it was
FrozenWhileBusyOrStarting ==
  instanceStatus \in {"BUSY", "STARTING"} =>
    /\ \A p \in Slots : procs[p].pc = "none" => procs'[p].pc = "none"
    /\ lockedFiles' = lockedFiles

\* C34: while the status of the instance is BUSY or STARTING no handler of a
\* file event other than file/list and file/status starts (the event is
\* answered with an error by the authentication middleware), and the lock
\* registry does not change.
C34_RegistryFrozenWhileBusyOrStarting == [][FrozenWhileBusyOrStarting]_vars

====
